---- MODULE Spec2Model ----
(***************************************************************************)
(* A model of the rendering core of rtlib: the BVH (src/bvh.rs), the       *)
(* linear intersector (src/shapes.rs), the Kensler permutation             *)
(* (src/math.rs), the stratified sampler (src/samplers.rs) and the         *)
(* accumulation buffer (src/color.rs).                                     *)
(*                                                                         *)
(* Conventions.  Rust vectors are 0-based; a vector v is a TLA+ sequence   *)
(* and At(v, i) reads v[i].  Coordinates are small integers, on which the  *)
(* f32 arithmetic of the code is exact.  A centroid (min + max) * 0.5 and  *)
(* a split position min + extent * 0.5 are kept doubled (Centroid2,        *)
(* split_pos2), so that both stay integers; the comparison c < split_pos   *)
(* is unchanged by the doubling.                                           *)
(***************************************************************************)
EXTENDS Integers, Sequences, FiniteSets, TLC

VARIABLES
    \* ---- BVH (src/bvh.rs) and its caller
    pc,                 \* position of the caller of the BVH
    n_primitives,       \* argument of BVH::build
    prim_bbox,          \* calculate_bbox_fn: primitive id -> AABB
    nodes,              \* BVH.nodes
    primitive_indices,  \* BVH.primitive_indices
    stack_nodes,        \* the entries stack_nodes[0 .. stack_ptr-1]
    panic,              \* "none", or the abort that ended the call
    ray,                \* argument of intersect
    isect_t,            \* isect_fn(idx, ray): primitive id -> NoHit or t
    current_t,          \* BVH::intersect local
    primitive_id,       \* BVH::intersect local
    bvh_result,         \* value returned by BVH::intersect
    linear_result,      \* value returned by LinearIntersector::intersect
    overflow_checks,    \* build profile: TRUE when integer overflow panics
    perm_total,         \* permutation_test: total
    perm_seed,          \* permutation_test: seed
    perm_ids,           \* permutation_test: the values inserted so far, by i
    perm_panic,         \* TRUE when a call of permutation_element panicked
    sampler,            \* the StratifiedPathSampler
    sampler_panic,      \* TRUE when a call on the sampler panicked
    returned,           \* the floats returned by the last call on the sampler
    pixel,              \* the pixel the caller is sampling
    cells,              \* the stratum cell of each sample_pixel of the pixel
    drawn,              \* the draws since the last sample_pixel, that one
                        \* included: their kind and the dimension hashed
    size,               \* AccumlationBuffer.size
    buffer,             \* AccumlationBuffer.buffer
    added,              \* the colours added at each pixel, in order
    filter_radius,      \* the radius of the scene's filter, if it has one
    tiles,              \* the tiles the image was split into
    current,            \* the tile being rendered: its place in tiles, or 0
    tile_buffer,        \* the AccumlationTileBuffer of that tile
    samples,            \* the samples added to tile buffers so far
    merges,             \* the merges made: the tile and the pixels written
    tile_panic,         \* TRUE when an index was out of bounds
    geometry,           \* the Geometry: its spheres, its meshes and triangles
    geom_pc,            \* "adding", "prepared" or "intersected"
    geom_ray,           \* argument of Geometry::intersect
    interaction,        \* value returned by Geometry::intersect
    xf_a,               \* a Transformation
    xf_b,               \* another Transformation
    xf_product,         \* the last product: its operands and its value
    bbox_out,           \* the last AABB * Transformation: operands and value
    look_out,           \* the last look_at: its arguments and its outcome
    split_call,         \* the last Tile::split: its arguments and its value
    tile_iter,          \* the TileIterator
    yielded,            \* what TileIterator::next returned, call by call
    parse_state,        \* the ParseState
    scene_desc,         \* the SceneDescription: its materials and its shapes
    parse_result,       \* "parsing", "ok", "err", or "abort" for a panic
    n_directives,       \* the directives processed
    saved,              \* the current values at each AttributeBegin still open
    balanced,           \* the AttributeBegin ... AttributeEnd pairs closed
    integrator,         \* the integrator running: its locals and where it stands
    sample_calls,       \* the calls of sample_pixel made, in their order
    walk                \* the camera path random_walk follows: its calls, its counts and its result

bvhVars == <<pc, n_primitives, prim_bbox, nodes, primitive_indices, stack_nodes,
             panic, ray, isect_t, current_t, primitive_id, bvh_result,
             linear_result>>

permVars == <<perm_total, perm_seed, perm_ids, perm_panic>>

samplerVars == <<sampler, sampler_panic, returned, pixel, cells, drawn>>

accumVars == <<size, buffer, added>>

tileVars == <<filter_radius, tiles, current, tile_buffer, samples, merges,
              tile_panic>>

geomVars == <<geometry, geom_pc, geom_ray, interaction>>

transformVars == <<xf_a, xf_b, xf_product, bbox_out, look_out>>

iterVars == <<split_call, tile_iter, yielded>>

parseVars == <<parse_state, scene_desc, parse_result, n_directives, saved, balanced>>

integVars == <<integrator, sample_calls>>

walkVars == <<walk>>

\* what the BVH does not touch
besideBVH == <<overflow_checks, permVars, samplerVars, accumVars, tileVars,
                 geomVars, transformVars,
          iterVars,
          parseVars,
          integVars,
          walkVars>>

\* what the permutation does not touch
besidePerm == <<bvhVars, samplerVars, accumVars, tileVars,
                 geomVars, transformVars,
          iterVars,
          parseVars,
          integVars,
          walkVars>>

\* what the sampler does not touch
besideSampler == <<bvhVars, permVars, accumVars, tileVars,
                 geomVars, transformVars,
          iterVars,
          parseVars,
          integVars,
          walkVars>>

\* what the accumulation buffer does not touch
besideAccum == <<bvhVars, overflow_checks, permVars, samplerVars, tileVars,
                 geomVars, transformVars,
          iterVars,
          parseVars,
          integVars,
          walkVars>>

\* what the tile buffer and its merge do not touch
besideTile == <<bvhVars, overflow_checks, permVars, samplerVars, size, added,
                geomVars, transformVars,
          iterVars,
          parseVars,
          integVars,
          walkVars>>

\* what the geometry does not touch
besideGeometry == <<bvhVars, overflow_checks, permVars, samplerVars, accumVars,
                    tileVars, transformVars,
          iterVars,
          parseVars,
          integVars,
          walkVars>>

\* what the transformations do not touch
besideTransform == <<bvhVars, overflow_checks, permVars, samplerVars, accumVars,
                     tileVars, geomVars,
          iterVars,
          parseVars,
          integVars,
          walkVars>>

\* what Tile::split and the TileIterator do not touch
besideIter == <<bvhVars, overflow_checks, permVars, samplerVars, accumVars, tileVars, geomVars, transformVars,
          parseVars,
          integVars,
          walkVars>>

\* what the parser does not touch
besideParse == <<bvhVars, overflow_checks, permVars, samplerVars, accumVars, tileVars, geomVars, transformVars, iterVars,
          integVars,
          walkVars>>

\* what the integrators do not touch
besideInteg == <<bvhVars, overflow_checks, permVars, samplerVars, accumVars, tileVars, geomVars, transformVars, iterVars, parseVars,
          walkVars>>

\* what random_walk does not touch
besideWalk == <<bvhVars, overflow_checks, permVars, samplerVars, accumVars, tileVars, geomVars, transformVars, iterVars, parseVars, integVars>>

vars == <<bvhVars, overflow_checks, permVars, samplerVars, accumVars, tileVars,
          geomVars, transformVars,
          iterVars,
          parseVars,
          integVars,
          walkVars>>

----------------------------------------------------------------------------
(* Bounds of the model *)

\* permutations of up to MaxPermN elements
MaxPermN == 6

\* up to MaxStrata strata along each axis of a pixel
MaxStrata == 3

\* up to MaxSamples calls of sample_pixel, each followed by up to MaxDraws
\* calls of next_1d and next_2d, where the three are interleaved
MaxSamples == 2

MaxDraws == 2

\* up to MaxAdds calls of AccumlationBuffer::add
MaxAdds == 7

\* the samples added to tile buffers in one run
MaxSamplesAdded == 1

\* the tiles are up to MaxTileSize pixels wide and high
MaxTileSize == 2

\* up to MaxShapes spheres and MaxShapes meshes in a Geometry
MaxShapes == 2

\* random walks of up to MaxDepth bounces
MaxDepth == 3

\* up to MaxSpp samples per pixel
MaxSpp == 2

\* images of up to MaxResolution pixels along each axis
MaxResolution == 2

\* up to MaxDirectives directives in the input parsed
MaxDirectives == 6

\* up to MaxNones calls of TileIterator::next after the last pixel
MaxNones == 2

\* up to MaxProducts products of transformations in one run
MaxProducts == 2

\* largest primitive count of the build-only specification
MaxPrims == 5
\* largest primitive count of the build-and-intersect specification
MaxIsectPrims == 3
\* hit distances below BIG_NUMBER are 1 .. MaxT
MaxT == 2
\* primitive counts of the degenerate chain scenes
DeepMin == 64
DeepMax == 67

----------------------------------------------------------------------------
(* Helpers for 0-based vectors *)

At(v, i) == v[i + 1]

Put(v, i, x) == [v EXCEPT ![i + 1] = x]

Min2(a, b) == IF a < b THEN a ELSE b

Max2(a, b) == IF a > b THEN a ELSE b

None == [some |-> FALSE]

Some(tt, id) == [some |-> TRUE, t |-> tt, shape_id |-> id]

----------------------------------------------------------------------------
(* AABB (src/bbox.rs) *)

AABB(mn, mx) == [min |-> mn, max |-> mx]

\* AABB::union: componentwise min of the mins, max of the maxes
Union(a, b) ==
    AABB([k \in 1..3 |-> Min2(a.min[k], b.min[k])],
         [k \in 1..3 |-> Max2(a.max[k], b.max[k])])

\* AABB::centroid, doubled: (min + max) * 0.5 * 2
Centroid2(b) == [k \in 1..3 |-> b.min[k] + b.max[k]]

----------------------------------------------------------------------------
(* BVH::build (src/bvh.rs) *)

\* capacity of the explicit node stack: let mut stack_nodes: [usize; 64]
STACK_SIZE == 64

BVHNode(b, l, f, n) == [bbox |-> b, left_node |-> l, first_prim |-> f, num_prims |-> n]

\* BVHNode::is_leaf
is_leaf(node) == node.num_prims > 0

\* BVH::calculate_bbox: union of the boxes of primitive_indices[start .. start+n)
RECURSIVE calculate_bbox_from(_, _, _, _, _)
calculate_bbox_from(pi, bboxes, acc, i, end) ==
    IF i >= end THEN acc
    ELSE LET bbox == Union(acc, bboxes[At(pi, i)])
         IN  IF bbox.min \in Seq(Int)    \* evaluates bbox before the next round
             THEN calculate_bbox_from(pi, bboxes, bbox, i + 1, end)
             ELSE bbox

\* the box of the first primitive of the slice alone
calculate_bbox_of_first(pi, bboxes, start, n) == bboxes[At(pi, start)]

calculate_bbox(pi, bboxes, start, n) ==
    calculate_bbox_from(pi, bboxes, bboxes[At(pi, start)], start + 1, start + n)

\* BVH::calculate_axis_and_split_pos: the axis (0, 1, 2) of the longest extent,
\* ties going to the later axis, and the doubled split position
calculate_axis(bbox) ==
    LET extent == [k \in 1..3 |-> bbox.max[k] - bbox.min[k]]
    IN  IF extent[1] > extent[2] /\ extent[1] > extent[3] THEN 0
        ELSE IF extent[2] > extent[3] THEN 1
        ELSE 2

split_pos2(bbox, axis) ==
    2 * bbox.min[axis + 1] + (bbox.max[axis + 1] - bbox.min[axis + 1])

\* the while loop of BVH::partition_primitives
RECURSIVE partition_loop(_, _, _, _, _, _)
partition_loop(pi, bboxes, axis, split2, i, j) ==
    IF i > j THEN [pi |-> pi, i |-> i, j |-> j]
    ELSE IF Centroid2(bboxes[At(pi, i)])[axis + 1] < split2
         THEN partition_loop(pi, bboxes, axis, split2, i + 1, j)
         ELSE LET swapped == Put(Put(pi, j, At(pi, i)), i, At(pi, j))
              IN  IF Len(swapped) = Len(pi)    \* evaluates swapped before the next round
                  THEN partition_loop(swapped, bboxes, axis, split2, i, j - 1)
                  ELSE [pi |-> swapped, i |-> i, j |-> j]

\* the partition starts at the head of primitive_indices
partition_primitives_from_head(pi, bboxes, bbox, first_prim, num_prims) ==
    LET axis == calculate_axis(bbox)
    IN  partition_loop(pi, bboxes, axis, split_pos2(bbox, axis),
                       0, first_prim + num_prims - 1)

\* BVH::partition_primitives
partition_primitives(pi, bboxes, bbox, first_prim, num_prims) ==
    LET axis == calculate_axis(bbox)
    IN  partition_loop(pi, bboxes, axis, split_pos2(bbox, axis),
                       first_prim, first_prim + num_prims - 1)

\* the slice is split at its first quarter when every primitive fell on one side
split_index_at_quarter(i, first_prim, num_prims) ==
    IF i - first_prim = 0 \/ i - first_prim = num_prims
    THEN first_prim + num_prims \div 4
    ELSE i

\* the split index of a node: the partition's, or the middle of the slice when
\* every primitive fell on one side
split_index(i, first_prim, num_prims) ==
    IF i - first_prim = 0 \/ i - first_prim = num_prims
    THEN first_prim + num_prims \div 2
    ELSE i

\* mutants of stop_splitting: no node stays a leaf; a node of three stays a leaf
stop_splitting_never(node) == node.num_prims <= 0

stop_splitting_at_three(node) == node.num_prims <= 3

\* line 66: a popped node of at most two primitives stays a leaf
stop_splitting(node) == node.num_prims <= 2

\* the left child covers [first_prim + 1, i)
left_child_without_first(pi, bboxes, node, i) ==
    BVHNode(calculate_bbox(pi, bboxes, node.first_prim, i - node.first_prim),
            0, node.first_prim + 1, i - node.first_prim - 1)

\* lines 81-86: the left child covers [first_prim, i)
left_child(pi, bboxes, node, i) ==
    BVHNode(calculate_bbox(pi, bboxes, node.first_prim, i - node.first_prim),
            0, node.first_prim, i - node.first_prim)

\* mutant of right_child: the slice starts at the parent's first primitive
right_child_from_first(pi, bboxes, node, i) ==
    BVHNode(calculate_bbox(pi, bboxes, i, node.num_prims - (i - node.first_prim)),
            0, node.first_prim, node.num_prims - (i - node.first_prim))

\* lines 87-92: the right child covers [i, first_prim + num_prims)
right_child(pi, bboxes, node, i) ==
    BVHNode(calculate_bbox(pi, bboxes, i, node.num_prims - (i - node.first_prim)),
            0, i, node.num_prims - (i - node.first_prim))

\* BVH::build up to the loop: lines 39-57
Build ==
    /\ pc = "new"
    /\ primitive_indices' = [k \in 1..n_primitives |-> k - 1]
    /\ IF n_primitives = 0
       THEN /\ nodes' = <<>>
            /\ stack_nodes' = <<>>
            /\ pc' = "built"
       ELSE /\ nodes' = << BVHNode(calculate_bbox(primitive_indices', prim_bbox,
                                                  0, n_primitives),
                                   0, 0, n_primitives) >>
            /\ stack_nodes' = <<0>>
            /\ pc' = "build"
    /\ UNCHANGED besideBVH
    /\ UNCHANGED <<n_primitives, prim_bbox, panic, ray, isect_t, current_t,
                   primitive_id, bvh_result, linear_result>>

\* one iteration of the loop of BVH::build: lines 59-105
BuildStep ==
    /\ pc = "build"
    /\ panic = "none"
    /\ stack_nodes # <<>>
    /\ LET stack_ptr == Len(stack_nodes) - 1
           node_idx  == stack_nodes[Len(stack_nodes)]
           rest      == SubSeq(stack_nodes, 1, stack_ptr)
           node      == At(nodes, node_idx)
       IN  IF stop_splitting(node)
           THEN /\ stack_nodes' = rest
                /\ pc' = IF rest = <<>> THEN "built" ELSE "build"
                /\ UNCHANGED <<nodes, primitive_indices, panic>>
           ELSE \E part \in { partition_primitives(primitive_indices, prim_bbox,
                                    node.bbox, node.first_prim, node.num_prims) } :
                \E i \in { split_index(part.i, node.first_prim, node.num_prims) } :
                \E left_node \in { left_child(part.pi, prim_bbox, node, i) } :
                \E right_node \in { right_child(part.pi, prim_bbox, node, i) } :
                LET left_idx == Len(nodes)
                    parent == [node EXCEPT !.left_node = left_idx, !.num_prims = 0]
                IN  /\ primitive_indices' = part.pi
                    /\ nodes' = Put(nodes, node_idx, parent) \o <<left_node, right_node>>
                    /\ IF stack_ptr >= STACK_SIZE
                       THEN /\ panic' = "stack_overflow"
                            /\ stack_nodes' = rest
                            /\ pc' = pc
                       ELSE IF stack_ptr + 1 >= STACK_SIZE
                       THEN /\ panic' = "stack_overflow"
                            /\ stack_nodes' = Append(rest, left_idx)
                            /\ pc' = pc
                       ELSE /\ panic' = panic
                            /\ stack_nodes' = rest \o <<left_idx, left_idx + 1>>
                            /\ pc' = "build"
    /\ UNCHANGED besideBVH
    /\ UNCHANGED <<n_primitives, prim_bbox, ray, isect_t, current_t,
                   primitive_id, bvh_result, linear_result>>

----------------------------------------------------------------------------
(* Ray-box test (src/isect.rs) and the two intersectors *)

\* f32::INFINITY, above every distance the model computes
F32_INFINITY == 1000000

\* the NaN that 0.0 * f32::INFINITY gives
F32_NAN == -2000000

\* 1.0 / d for a direction component d of -1, 0 or 1
Recip(d) == IF d = 0 THEN F32_INFINITY ELSE 1 \div d

\* a * inv for a difference of coordinates a and the reciprocal inv of a
\* direction component
TimesRecip(a, inv) ==
    IF inv = F32_INFINITY
    THEN IF a = 0 THEN F32_NAN
         ELSE IF a > 0 THEN F32_INFINITY ELSE 0 - F32_INFINITY
    ELSE a * inv

\* fn min(x, y) { if x < y {x} else {y} }, a comparison with NaN being false
min_f32(x, y) == IF x # F32_NAN /\ y # F32_NAN /\ x < y THEN x ELSE y

\* fn max(x, y) { if x > y {x} else {y} }
max_f32(x, y) == IF x # F32_NAN /\ y # F32_NAN /\ x > y THEN x ELSE y

\* isect_ray_bbox: the slab test, boundary included
isect_ray_bbox(ray_origin, ray_inv_dir, bbox_min, bbox_max) ==
    LET slab(k, tm) ==
            LET t1 == TimesRecip(bbox_min[k] - ray_origin[k], ray_inv_dir[k])
                t2 == TimesRecip(bbox_max[k] - ray_origin[k], ray_inv_dir[k])
            IN  << min_f32(max_f32(t1, tm[1]), max_f32(t2, tm[1])),
                   max_f32(min_f32(t1, tm[2]), min_f32(t2, tm[2])) >>
        tx == slab(1, <<0, F32_INFINITY>>)
        ty == slab(2, tx)
        tz == slab(3, ty)
    IN  tz[1] # F32_NAN /\ tz[2] # F32_NAN /\ tz[1] <= tz[2]

\* AABB::intersect
bbox_intersect(bbox, r) ==
    isect_ray_bbox(r.origin, [k \in 1..3 |-> Recip(r.direction[k])], bbox.min, bbox.max)

\* Option<f32>::None of isect_fn
NoHit == -1

\* BIG_NUMBER of BVH::intersect (1e30): the first distance above 1 .. MaxT
BVH_BIG_NUMBER == MaxT + 1

\* BIG_NUMBER of LinearIntersector::intersect (1e38), above BVH_BIG_NUMBER
LINEAR_BIG_NUMBER == MaxT + 2

\* lines 184-189 of bvh.rs, 82-87 of shapes.rs: keep the strictly closer hit
closer(best, t, idx) ==
    IF t # NoHit /\ t < best.t THEN [t |-> t, id |-> idx] ELSE best

\* lines 181-190: the primitives of a leaf, in slice order
RECURSIVE leaf_loop(_, _, _, _, _)
leaf_loop(pi, hits, best, i, end) ==
    IF i >= end THEN best
    ELSE leaf_loop(pi, hits, closer(best, hits[At(pi, i)], At(pi, i)), i + 1, end)

\* lines 199-203
bvh_return(best) ==
    IF best.t < BVH_BIG_NUMBER THEN Some(best.t, best.id) ELSE None

\* LinearIntersector::intersect: every primitive in index order, its box first
RECURSIVE linear_loop(_, _, _, _, _, _)
linear_loop(bboxes, hits, r, best, idx, n) ==
    IF idx >= n THEN best
    ELSE linear_loop(bboxes, hits, r,
                     IF bbox_intersect(bboxes[idx], r)
                     THEN closer(best, hits[idx], idx) ELSE best,
                     idx + 1, n)

linear_intersect(bboxes, hits, r, n) ==
    LET best == linear_loop(bboxes, hits, r, [t |-> LINEAR_BIG_NUMBER, id |-> 0], 0, n)
    IN  IF best.t < LINEAR_BIG_NUMBER THEN Some(best.t, best.id) ELSE None

\* the rays of the model
RaySet ==
    { [origin |-> <<-1, -1, -1>>, direction |-> <<1, 1, 1>>],
      [origin |-> <<9, 9, 9>>,    direction |-> <<-1, -1, -1>>],
      [origin |-> <<3, -1, 3>>,   direction |-> <<-1, 1, -1>>],
      [origin |-> <<-1, -1, -1>>, direction |-> <<-1, -1, -1>>] }

\* the isect_fn of the model: a primitive lies inside its box, so it is hit only
\* by a ray that meets the box, at a distance in 1 .. MaxT or at BVH_BIG_NUMBER
IsectFns(r) ==
    { f \in [0..(n_primitives - 1) -> {NoHit} \cup (1..BVH_BIG_NUMBER)] :
        \A p \in 0..(n_primitives - 1) :
            f[p] # NoHit => bbox_intersect(prim_bbox[p], r) }

\* BVH::intersect up to the loop: lines 160-169
Intersect ==
    /\ pc = "built"
    /\ panic = "none"
    /\ ray' \in RaySet
    /\ isect_t' \in IsectFns(ray')
    /\ primitive_id' = 0
    /\ current_t' = BVH_BIG_NUMBER
    /\ stack_nodes' = <<0>>
    /\ pc' = "isect"
    /\ UNCHANGED besideBVH
    /\ UNCHANGED <<n_primitives, prim_bbox, nodes, primitive_indices, panic,
                   bvh_result, linear_result>>

\* one iteration of the loop of BVH::intersect (lines 171-198) and, when the
\* stack is empty after it, the return (lines 199-203)
IntersectStep ==
    /\ pc = "isect"
    /\ panic = "none"
    /\ stack_nodes # <<>>
    /\ LET stack_ptr == Len(stack_nodes) - 1
           node_idx  == stack_nodes[Len(stack_nodes)]
           rest      == SubSeq(stack_nodes, 1, stack_ptr)
       IN  IF node_idx >= Len(nodes)
           THEN /\ panic' = "index_out_of_bounds"
                /\ stack_nodes' = rest
                /\ UNCHANGED <<pc, current_t, primitive_id, bvh_result>>
           ELSE LET node == At(nodes, node_idx)
                    best == IF bbox_intersect(node.bbox, ray) /\ is_leaf(node)
                            THEN leaf_loop(primitive_indices, isect_t,
                                           [t |-> current_t, id |-> primitive_id],
                                           node.first_prim,
                                           node.first_prim + node.num_prims)
                            ELSE [t |-> current_t, id |-> primitive_id]
                    push == bbox_intersect(node.bbox, ray) /\ ~is_leaf(node)
                IN  /\ current_t' = best.t
                    /\ primitive_id' = best.id
                    /\ IF push /\ stack_ptr + 1 >= STACK_SIZE
                       THEN /\ panic' = "stack_overflow"
                            /\ stack_nodes' = IF stack_ptr >= STACK_SIZE THEN rest
                                              ELSE Append(rest, node.left_node)
                            /\ UNCHANGED <<pc, bvh_result>>
                       ELSE /\ panic' = panic
                            /\ stack_nodes' = IF push
                                              THEN rest \o <<node.left_node,
                                                             node.left_node + 1>>
                                              ELSE rest
                            /\ IF stack_nodes' = <<>>
                               THEN /\ pc' = "returned"
                                    /\ bvh_result' = bvh_return(best)
                               ELSE UNCHANGED <<pc, bvh_result>>
    /\ UNCHANGED besideBVH
    /\ UNCHANGED <<n_primitives, prim_bbox, nodes, primitive_indices, ray,
                   isect_t, linear_result>>

\* LinearIntersector::prepare_for_rendering and ::intersect on the same scene,
\* ray and isect_fn
LinearIntersect ==
    /\ pc = "returned"
    /\ linear_result' = linear_intersect(prim_bbox, isect_t, ray, n_primitives)
    /\ pc' = "compared"
    /\ UNCHANGED besideBVH
    /\ UNCHANGED <<n_primitives, prim_bbox, nodes, primitive_indices, stack_nodes,
                   panic, ray, isect_t, current_t, primitive_id, bvh_result>>

----------------------------------------------------------------------------
(* Fixed-width unsigned integers.  A u32 or u64 is the sequence of its     *)
(* bytes, least significant first (to_le_bytes), so that every operation   *)
(* wraps at the width of its operands as the Rust operation does.          *)

\* body(v) for v the given value, which is computed once
With(value, body(_)) == CHOOSE r \in { body(v) : v \in {value} } : TRUE

Pow2(k) ==
    CASE k = 0 -> 1 [] k = 1 -> 2 [] k = 2 -> 4 [] k = 3 -> 8 [] k = 4 -> 16
      [] k = 5 -> 32 [] k = 6 -> 64 [] k = 7 -> 128 [] OTHER -> 256

Bit(v, k) == (v \div Pow2(k)) % 2

XorBit(x, y) == (x + y) % 2

AndBit(x, y) == x * y

OrBit(x, y) == x + y - x * y

\* a byte from the bits of two bytes, combined bit by bit
BitwiseByte(op(_, _), a, b) ==
      op(Bit(a, 0), Bit(b, 0))        + 2 * op(Bit(a, 1), Bit(b, 1))
    + 4 * op(Bit(a, 2), Bit(b, 2))    + 8 * op(Bit(a, 3), Bit(b, 3))
    + 16 * op(Bit(a, 4), Bit(b, 4))   + 32 * op(Bit(a, 5), Bit(b, 5))
    + 64 * op(Bit(a, 6), Bit(b, 6))   + 128 * op(Bit(a, 7), Bit(b, 7))

\* the bytes byte(1) .. byte(len) of a u32 (len = 4) or a u64 (len = 8)
Bytes(byte(_), len) ==
    IF len = 4 THEN <<byte(1), byte(2), byte(3), byte(4)>>
    ELSE <<byte(1), byte(2), byte(3), byte(4),
           byte(5), byte(6), byte(7), byte(8)>>

\* x op y, byte by byte
Bitwise(op(_, _), x, y) ==
    With(<<x, y>>, LAMBDA a :
        Bytes(LAMBDA k : BitwiseByte(op, a[1][k], a[2][k]), Len(a[1])))

\* x ^ y, x & y, x | y
Xor(x, y) == Bitwise(XorBit, x, y)

And(x, y) == Bitwise(AndBit, x, y)

Or(x, y) == Bitwise(OrBit, x, y)

\* x >> s
Shr(x, s) ==
    With(<<x, s \div 8, s % 8>>, LAMBDA a :
        LET byte(k) == IF k <= Len(a[1]) THEN a[1][k] ELSE 0
            shifted(k) ==
                byte(k + a[2]) \div Pow2(a[3])
                    + (byte(k + a[2] + 1) % Pow2(a[3])) * Pow2(8 - a[3])
        IN  Bytes(shifted, Len(a[1])))

\* x ^= x >> s
XorShr(x, s) == With(x, LAMBDA v : Xor(v, Shr(v, s)))

\* x |= x >> s
OrShr(x, s) == With(x, LAMBDA v : Or(v, Shr(v, s)))

\* x ^= (x & w) >> s
XorMaskedShr(x, w, s) == With(x, LAMBDA v : Xor(v, Shr(And(v, w), s)))

\* the u32 with the 16-bit halves hi and lo; the u64 with the u32 halves hi, lo
U32(hi, lo) == <<lo % 256, lo \div 256, hi % 256, hi \div 256>>

U64(hi, lo) == lo \o hi

\* v as u32, for 0 <= v < 2^31
ToU32(v) == U32(v \div 65536, v % 65536)

\* the u32 x as an integer, for x < 2^31
ToInt(x) ==
    With(x, LAMBDA v : v[1] + 256 * v[2] + 65536 * v[3] + 16777216 * v[4])

\* x as u64 / x as u32
ZeroExtend(x) == x \o <<0, 0, 0, 0>>

Truncate(x) == SubSeq(x, 1, 4)

\* column p (0-based) of the schoolbook product: the sum of x[a] * y[p - a]
RECURSIVE MulColumn(_, _, _, _)
MulColumn(x, y, p, a) ==
    IF a > p THEN 0
    ELSE x[a + 1] * y[p - a + 1] + MulColumn(x, y, p, a + 1)

\* x.wrapping_mul(y): the low Len(x) bytes of the product
RECURSIVE MulFrom(_, _, _, _)
MulFrom(x, y, p, carry) ==
    IF p >= Len(x) THEN <<>>
    ELSE With(<<MulColumn(x, y, p, 0) + carry, p + 1>>, LAMBDA col :
             <<col[1] % 256>> \o MulFrom(x, y, col[2], col[1] \div 256))

WrappingMul(x, y) == With(<<x, y>>, LAMBDA a : MulFrom(a[1], a[2], 0, 0))

\* x.wrapping_add(y)
RECURSIVE AddFrom(_, _, _, _)
AddFrom(x, y, p, carry) ==
    IF p > Len(x) THEN <<>>
    ELSE With(<<x[p] + y[p] + carry, p + 1>>, LAMBDA sum :
             <<sum[1] % 256>> \o AddFrom(x, y, sum[2], sum[1] \div 256))

WrappingAdd(x, y) == With(<<x, y>>, LAMBDA a : AddFrom(a[1], a[2], 1, 0))

\* x % n for 0 < n < 2^15, most significant byte first
RECURSIVE ModFrom(_, _, _, _)
ModFrom(x, n, k, rem) ==
    IF k = 0 THEN rem ELSE ModFrom(x, n, k - 1, (rem * 256 + x[k]) % n)

Mod(x, n) == With(x, LAMBDA v : ModFrom(v, n, Len(v), 0))

\* x < n for a u32 x and 0 <= n < 2^31
LessThan(x, n) == With(x, LAMBDA v : v[4] < 128 /\ ToInt(v) < n)

----------------------------------------------------------------------------
(* permutation_element (src/math.rs) *)

\* the u32 product x * y of line 63, which is checked when the build has
\* overflow checks (debug profile) and wraps when it has not (release profile)
CheckedMul(x, y, checks) ==
    With(WrappingMul(ZeroExtend(x), ZeroExtend(y)), LAMBDA wide :
        IF checks /\ SubSeq(wide, 5, 8) # <<0, 0, 0, 0>>
        THEN [panic |-> TRUE]
        ELSE [panic |-> FALSE, value |-> Truncate(wide)])

\* lines 47-52: n - 1 with every bit below its highest set bit set
mask(n) == OrShr(OrShr(OrShr(OrShr(OrShr(ToU32(n - 1), 1), 2), 4), 8), 16)

\* lines 55-62: one round of the loop, up to the checked product
round_head(i, w, seed) ==
    LET a == Xor(i, seed)
        b == WrappingMul(a, U32(\hE170, \h893D))
        c == Xor(b, Shr(seed, 16))
        d == XorMaskedShr(c, w, 4)
        e == Xor(d, Shr(seed, 8))
        f == WrappingMul(e, U32(\h0929, \hEB3F))
        g == Xor(f, Shr(seed, 23))
    IN  XorMaskedShr(g, w, 1)

\* lines 64-72: the rest of the round
round_tail(i, w) ==
    LET a == WrappingMul(i, U32(\h6935, \hFA69))
        b == XorMaskedShr(a, w, 11)
        c == WrappingMul(b, U32(\h74DC, \hB303))
        d == XorMaskedShr(c, w, 2)
        e == WrappingMul(d, U32(\h9E50, \h1CC3))
        f == XorMaskedShr(e, w, 2)
        g == WrappingMul(f, U32(\hC860, \hA3DF))
    IN  XorShr(And(g, w), 5)

\* lines 54-75: rounds until the value is below n
RECURSIVE permutation_loop(_, _, _, _, _)
permutation_loop(i, w, n, seed, checks) ==
    With(CheckedMul(round_head(i, w, seed), Or(ToU32(1), Shr(seed, 27)),
                    checks),
         LAMBDA product :
            IF product.panic THEN [panic |-> TRUE]
            ELSE With(round_tail(product.value, w), LAMBDA next :
                     IF LessThan(next, n)
                     THEN [panic |-> FALSE, value |-> next]
                     ELSE permutation_loop(next, w, n, seed, checks)))

\* line 77: (i.wrapping_add(seed)) % n
finish(i, n, seed) == Mod(WrappingAdd(i, seed), n)

\* permutation_element(index, n, seed): the value returned, or the panic
permutation_element(index, n, seed, checks) ==
    With(<<ToU32(index), mask(n), n, seed, checks>>, LAMBDA a :
        With(permutation_loop(a[1], a[2], a[3], a[4], a[5]), LAMBDA walked :
            IF walked.panic THEN [panic |-> TRUE]
            ELSE [panic |-> FALSE,
                  value |-> finish(walked.value, a[3], a[4])]))

----------------------------------------------------------------------------
(* murmur_hash64a and the hash! macro (src/hash.rs) *)

\* m = 0xc6a4a7935bd1e995
MURMUR_M == U64(U32(\hC6A4, \hA793), U32(\h5BD1, \hE995))

\* r = 47
MURMUR_R == 47

\* the loop over key.chunks_exact(8): h after the whole chunks of key
RECURSIVE murmur_chunks(_, _)
murmur_chunks(key, h) ==
    IF Len(key) < 8 THEN h
    ELSE LET k0 == WrappingMul(SubSeq(key, 1, 8), MURMUR_M)
             k1 == XorShr(k0, MURMUR_R)
             k2 == WrappingMul(k1, MURMUR_M)
         IN  With(<<SubSeq(key, 9, Len(key)),
                    WrappingMul(Xor(h, k2), MURMUR_M)>>,
                  LAMBDA a : murmur_chunks(a[1], a[2]))

\* chunks.remainder(), copied into [0u8; 8]
murmur_rest(key) ==
    With(SubSeq(key, Len(key) - (Len(key) % 8) + 1, Len(key)), LAMBDA rest :
        Bytes(LAMBDA k : IF k <= Len(rest) THEN rest[k] ELSE 0, 8))

murmur_hash64a(key, seed) ==
    With(key, LAMBDA bytes :
        LET h0 == Xor(seed, WrappingMul(ZeroExtend(ToU32(Len(bytes))),
                                        MURMUR_M))
            h1 == murmur_chunks(bytes, h0)
            h2 == IF Len(bytes) % 8 # 0
                  THEN WrappingMul(Xor(h1, murmur_rest(bytes)), MURMUR_M)
                  ELSE h1
            h3 == XorShr(h2, MURMUR_R)
            h4 == WrappingMul(h3, MURMUR_M)
        IN  XorShr(h4, MURMUR_R))

\* hash!(e1, e2, e3, e4): the hash of the little-endian bytes of the arguments
hash4(e1, e2, e3, e4) ==
    murmur_hash64a(e1 \o e2 \o e3 \o e4, ZeroExtend(ToU32(0)))

----------------------------------------------------------------------------
(* PCGRng (src/rng.rs) *)

\* 6364136223846793005
PCG_MULTIPLIER == U64(U32(\h5851, \hF42D), U32(\h4C95, \h7F2D))

\* the u32 1 << s
PowerOfTwo(s) ==
    With(s, LAMBDA v :
        Bytes(LAMBDA k : IF k - 1 = v \div 8 THEN Pow2(v % 8) ELSE 0, 4))

\* x << s on u32
Shl(x, s) == WrappingMul(x, PowerOfTwo(s))

PCGRng(state, inc) == [state |-> state, inc |-> inc]

\* the output function of rand_u32 on the old state
pcg_output(oldstate) ==
    With(<<Truncate(Shr(Xor(Shr(oldstate, 18), oldstate), 27)),
           ToInt(Truncate(Shr(oldstate, 59)))>>,
         LAMBDA a :
            \* a[1] is xorshifted, a[2] is rot
            Or(Shr(a[1], a[2]), Shl(a[1], (32 - a[2]) % 32)))

\* rand_u32: the number returned and the generator after the call
rand_u32(rng) ==
    With(rng, LAMBDA g :
        [value |-> pcg_output(g.state),
         rng |-> PCGRng(WrappingAdd(WrappingMul(g.state, PCG_MULTIPLIER),
                                    Or(g.inc, ZeroExtend(ToU32(1)))),
                        g.inc)])

----------------------------------------------------------------------------
(* f32 arithmetic.  A float is [m, e] and stands for m / 2^e with m < 2^24  *)
(* or m = 2^24; every operation rounds its exact result to 24 significant   *)
(* bits, to nearest, ties to even, as IEEE 754 single precision does.       *)

RECURSIVE TwoTo(_)
TwoTo(k) == IF k = 0 THEN 1 ELSE 2 * TwoTo(k - 1)

F32(m, e) == [m |-> m, e |-> e]

\* a / b rounded to the nearest integer, ties to even
RoundNearestEven(a, b) ==
    With(<<a \div b, a % b, b>>, LAMBDA q :
        IF 2 * q[2] > q[3] \/ (2 * q[2] = q[3] /\ q[1] % 2 = 1)
        THEN q[1] + 1 ELSE q[1])

\* the number of bits of n beyond 24
RECURSIVE ExtraBits(_)
ExtraBits(n) == IF n < 16777216 THEN 0 ELSE 1 + ExtraBits(n \div 2)

\* the float nearest to n / 2^e
F32Round(n, e) ==
    With(<<n, ExtraBits(n)>>, LAMBDA a :
        F32(RoundNearestEven(a[1], TwoTo(a[2])), e - a[2]))

\* v as f32, for 0 <= v < 2^24
AsF32(v) == F32(v, 0)

\* a + b
F32Add(a, b) ==
    With(<<a, b>>, LAMBDA v :
        With(Max2(v[1].e, v[2].e), LAMBDA e :
            F32Round(v[1].m * TwoTo(e - v[1].e) + v[2].m * TwoTo(e - v[2].e),
                     e)))

\* the j with 2^23 <= (m * 2^j) / n
RECURSIVE QuotientShift(_, _)
QuotientShift(m, n) ==
    IF m >= n * 8388608 THEN 0 ELSE 1 + QuotientShift(2 * m, n)

\* a / (n as f32), for 1 <= n <= 16
F32Div(a, n) ==
    With(a, LAMBDA v :
        IF v.m = 0 THEN F32(0, 0)
        ELSE With(QuotientShift(v.m, n), LAMBDA j :
                 F32(RoundNearestEven(v.m * TwoTo(j), n), v.e + j)))

\* floor(a * n), for 1 <= n <= 16
FloorTimes(a, n) ==
    With(a, LAMBDA v : IF v.e > 30 THEN 0 ELSE (v.m * n) \div TwoTo(v.e))

\* a with the odd m that stands for the same number
RECURSIVE Canonical(_)
Canonical(a) ==
    With(a, LAMBDA v :
        IF v.m = 0 THEN F32(0, 0)
        ELSE IF v.m % 2 = 0 THEN Canonical(F32(v.m \div 2, v.e - 1))
        ELSE v)

\* a == b
F32Eq(a, b) == Canonical(a) = Canonical(b)

\* a * b, where the odd parts of a and b have a product below 2^31
F32Mul(a, b) ==
    With(<<Canonical(a), Canonical(b)>>, LAMBDA c :
        F32Round(c[1].m * c[2].m, c[1].e + c[2].e))

\* a.recip(), for a one of 1.0, 2.0, .. 16.0
F32Recip(a) ==
    With(Canonical(a), LAMBDA c : F32Div(AsF32(1), c.m * TwoTo(0 - c.e)))

\* Rng::rand_f32: (rand_u32() >> 8) as f32 * 2^-24, and the generator after
rand_f32(rng) ==
    With(rand_u32(rng), LAMBDA r :
        [value |-> F32(ToInt(Shr(r.value, 8)), 24), rng |-> r.rng])

----------------------------------------------------------------------------
(* permutation_test (src/math.rs) *)

\* permutation_test, one turn of its first loop:
\* ids.insert(permutation_element(i, total, seed))
PermutationElement ==
    /\ ~perm_panic
    /\ Len(perm_ids) < perm_total
    /\ \E r \in {permutation_element(Len(perm_ids), perm_total, perm_seed,
                                     overflow_checks)} :
           IF r.panic
           THEN perm_panic' = TRUE /\ UNCHANGED perm_ids
           ELSE perm_ids' = Append(perm_ids, r.value) /\ UNCHANGED perm_panic
    /\ UNCHANGED <<overflow_checks, perm_total, perm_seed>>
    /\ UNCHANGED besidePerm

----------------------------------------------------------------------------
(* StratifiedPathSampler (src/samplers.rs) *)

\* StratifiedPathSampler::new
StratifiedPathSampler(seed, xsamples, ysamples, jitter) ==
    [seed |-> seed, jitter |-> jitter, xsamples |-> xsamples,
     ysamples |-> ysamples, pcg_rng |-> PCGRng(seed, ZeroExtend(ToU32(0))),
     x |-> 0, y |-> 0, iteration |-> 0, dimension |-> 0]

\* 0.5
F32_HALF == F32(1, 1)

\* the first two lines of next_1d and next_2d: the stratum of this draw
stratum_of(s, checks) ==
    LET hash == hash4(s.seed, ToU32(s.x), ToU32(s.y), ToU32(s.dimension))
        total == s.xsamples * s.ysamples
    IN  permutation_element(s.iteration, total, Truncate(hash), checks)

\* dx: rand_f32() with jitter, 0.5 without, and the generator after
jitter_of(s, rng) ==
    IF s.jitter THEN rand_f32(rng) ELSE [value |-> F32_HALF, rng |-> rng]

\* self.dimension += 1
next_1d_dimension(d) == d + 1

\* next_1d: the sampler after the call and the float returned, or the panic
next_1d(s, checks) ==
    With(stratum_of(s, checks), LAMBDA stratum :
        IF stratum.panic THEN [panic |-> TRUE, sampler |-> s]
        ELSE With(jitter_of(s, s.pcg_rng), LAMBDA dx :
            [panic |-> FALSE,
             sampler |-> [s EXCEPT !.dimension = next_1d_dimension(@),
                                   !.pcg_rng = dx.rng],
             value |-> <<F32Div(F32Add(AsF32(stratum.value), dx.value),
                                s.xsamples * s.ysamples)>>]))

\* self.dimension += 1 in place of the += 2 of next_2d
next_2d_dimension_by_one(d) == d + 1

\* self.dimension += 2
next_2d_dimension(d) == d + 2

\* next_2d: the sampler after the call and the floats returned, or the panic
next_2d(s, checks) ==
    With(stratum_of(s, checks), LAMBDA stratum :
        IF stratum.panic THEN [panic |-> TRUE, sampler |-> s]
        ELSE With(jitter_of(s, s.pcg_rng), LAMBDA dx :
             With(jitter_of(s, dx.rng), LAMBDA dy :
            [panic |-> FALSE,
             sampler |-> [s EXCEPT !.dimension = next_2d_dimension(@),
                                   !.pcg_rng = dy.rng],
             value |-> <<F32Div(F32Add(AsF32(stratum.value % s.xsamples),
                                       dx.value), s.xsamples),
                         F32Div(F32Add(AsF32(stratum.value \div s.xsamples),
                                       dy.value), s.ysamples)>>])))

\* sample_pixel
sample_pixel(s, x, y, iteration, checks) ==
    next_2d([s EXCEPT !.x = x, !.y = y, !.iteration = iteration,
                      !.dimension = 0], checks)

\* the stratum cell (floor(ux * xs), floor(uy * ys)) of the offset (ux, uy)
cell_of(s, offset) ==
    <<FloorTimes(offset[1], s.xsamples), FloorTimes(offset[2], s.ysamples)>>

\* the caller asks for the next sample of its pixel
SamplePixel ==
    /\ ~sampler_panic
    /\ Len(cells) < sampler.xsamples * sampler.ysamples
    /\ \E r \in {sample_pixel(sampler, pixel.x, pixel.y, Len(cells),
                              overflow_checks)} :
           /\ sampler' = r.sampler
           /\ sampler_panic' = r.panic
           /\ IF r.panic
              THEN /\ drawn' = <<>>
                   /\ UNCHANGED <<returned, cells>>
              ELSE /\ returned' = r.value
                   /\ cells' = Append(cells, cell_of(sampler, r.value))
                   /\ drawn' = <<[kind |-> "2d", dimension |-> 0]>>
    /\ UNCHANGED <<overflow_checks, pixel>>
    /\ UNCHANGED besideSampler

\* the caller draws one more number for the sample
Next1D ==
    /\ ~sampler_panic
    /\ drawn # <<>>
    /\ Len(drawn) <= MaxDraws
    /\ \E r \in {next_1d(sampler, overflow_checks)} :
           /\ sampler' = r.sampler
           /\ sampler_panic' = r.panic
           /\ IF r.panic
              THEN UNCHANGED <<returned, drawn>>
              ELSE /\ returned' = r.value
                   /\ drawn' = Append(drawn, [kind |-> "1d",
                                              dimension |-> sampler.dimension])
    /\ UNCHANGED <<overflow_checks, pixel, cells>>
    /\ UNCHANGED besideSampler

\* the caller draws one more pair of numbers for the sample
Next2D ==
    /\ ~sampler_panic
    /\ drawn # <<>>
    /\ Len(drawn) <= MaxDraws
    /\ \E r \in {next_2d(sampler, overflow_checks)} :
           /\ sampler' = r.sampler
           /\ sampler_panic' = r.panic
           /\ IF r.panic
              THEN UNCHANGED <<returned, drawn>>
              ELSE /\ returned' = r.value
                   /\ drawn' = Append(drawn, [kind |-> "2d",
                                              dimension |-> sampler.dimension])
    /\ UNCHANGED <<overflow_checks, pixel, cells>>
    /\ UNCHANGED besideSampler

----------------------------------------------------------------------------
(* PixelSample and AccumlationBuffer (src/color.rs).  The spectrum is one   *)
(* f32 channel; RGB adds and scales its three channels alike.               *)

PixelSample(spectrum, weight) == [spectrum |-> spectrum, weight |-> weight]

\* PixelSample::default
PixelSampleDefault == PixelSample(AsF32(0), AsF32(0))

\* AddAssign for PixelSample: the sample after self += rhs
add_assign(self, rhs) ==
    PixelSample(F32Add(self.spectrum, rhs.spectrum),
                F32Add(self.weight, rhs.weight))

\* From<PixelSample<T>> for RGB: the colour a sample resolves to
resolve(sample) ==
    IF F32Eq(sample.weight, AsF32(0)) THEN AsF32(0)
    ELSE F32Mul(sample.spectrum, F32Recip(sample.weight))

\* AccumlationBuffer::new
AccumlationBufferNew(sz) ==
    [k \in 1..(sz.width * sz.height) |-> PixelSampleDefault]

\* let index = y * self.size.width + x
buffer_index(sz, x, y) == y * sz.width + x

\* AccumlationBuffer::get
get(x, y) == At(buffer, buffer_index(size, x, y))

\* the number of adds made at the pixels ps
RECURSIVE AddsMade(_)
AddsMade(ps) ==
    IF ps = {} THEN 0
    ELSE LET p == CHOOSE q \in ps : TRUE
         IN  Len(added[p]) + AddsMade(ps \ {p})

\* AccumlationBuffer::add(x, y, value)
Add ==
    /\ AddsMade(DOMAIN added) < MaxAdds
    /\ \E x \in 0..(size.width - 1), y \in 0..(size.height - 1),
          value \in { AsF32(1), AsF32(3), F32(1, 1) } :
          /\ LET index == buffer_index(size, x, y)
                 sample == PixelSample(value, AsF32(1))
             IN  buffer' = Put(buffer, index,
                               add_assign(At(buffer, index), sample))
          /\ added' = [added EXCEPT ![<<x, y>>] = Append(@, value)]
    /\ UNCHANGED size
    /\ UNCHANGED besideAccum

----------------------------------------------------------------------------
(* Tile (src/tile.rs), the filters (src/filter.rs) and                      *)
(* AccumlationTileBuffer (src/color.rs).  A sample position, a filter       *)
(* radius and a distance to a pixel centre are f32 values that are          *)
(* multiples of a quarter of a pixel, written as their number of quarters:  *)
(* on these values every f32 sum, difference, floor and ceil of the code is *)
(* exact.                                                                   *)

\* the f32 value of the integer n
Pixels(n) == 4 * n

\* f32::floor, to an i32
Floor(q) == q \div 4

\* f32::ceil, to an i32
Ceil(q) == 0 - ((0 - q) \div 4)

\* `as i32` of a float: the fraction is dropped
AsI32(q) == IF q >= 0 THEN q \div 4 ELSE 0 - ((0 - q) \div 4)

\* f32::abs
Abs(q) == IF q < 0 THEN 0 - q ELSE q

\* Option<f32>: Some(radius)
SomeRadius(radius) == [some |-> TRUE, radius |-> radius]

\* Tile::new
Tile(x1, y1, x2, y2) == [x1 |-> x1, y1 |-> y1, x2 |-> x2, y2 |-> y2]

\* Tile::size
tile_size(tile) == [width |-> tile.x2 - tile.x1, height |-> tile.y2 - tile.y1]

\* (a..b).step_by(step): the number of values it yields
step_count(a, b, step) == (b - a + step - 1) \div step

\* Tile::split: the tiles, row by row
\* the tiles of the last column and the last row are not cut at the tile's edge
split_uncut(self, x_size, y_size) ==
    LET columns == step_count(self.x1, self.x2, x_size)
        rows == step_count(self.y1, self.y2, y_size)
    IN  [k \in 1..(rows * columns) |->
            LET x == self.x1 + ((k - 1) % columns) * x_size
                y == self.y1 + ((k - 1) \div columns) * y_size
            IN  Tile(x, y, x + x_size, y + y_size)]

split(self, x_size, y_size) ==
    LET columns == step_count(self.x1, self.x2, x_size)
        rows == step_count(self.y1, self.y2, y_size)
    IN  [k \in 1..(rows * columns) |->
            LET x == self.x1 + ((k - 1) % columns) * x_size
                y == self.y1 + ((k - 1) \div columns) * y_size
            IN  Tile(x, y, Min2(self.x2, x + x_size), Min2(self.y2, y + y_size))]

\* a filter that is 1 everywhere
BoxFilter_evaluate_everywhere(xradius, yradius, x, y) == AsF32(1)

\* BoxFilter::evaluate
BoxFilter_evaluate(xradius, yradius, x, y) ==
    IF Abs(x) > xradius \/ Abs(y) > yradius THEN AsF32(0) ELSE AsF32(1)

\* the closure calc_weight of random_walk_integrator, for a box filter with
\* both radii equal
calc_weight(filter, x, y) ==
    IF filter.some THEN BoxFilter_evaluate(filter.radius, filter.radius, x, y)
    ELSE AsF32(1)

\* the radius rounded up
padding_of_ceil(radius) == Ceil(radius)

\* let padding = (0.5 + radius) as i32
padding_of(radius) == AsI32((Pixels(1) \div 2) + radius)

\* let left = (tile.x1 as i32 - padding).max(0) as usize, and the three
\* other sides alike
padded_rect(tile, padding, max_width, max_height) ==
    [left |-> Max2(tile.x1 - padding, 0),
     right |-> Min2(tile.x2 + padding, max_width),
     top |-> Max2(tile.y1 - padding, 0),
     bottom |-> Min2(tile.y2 + padding, max_height)]

\* vec![PixelSample::default(); n]
default_buffer(n) == [k \in 1..n |-> PixelSampleDefault]

\* AccumlationTileBuffer::new
AccumlationTileBufferNew(tile, radius, max_width, max_height) ==
    IF radius.some
    THEN LET padding == padding_of(radius.radius)
             rect == padded_rect(tile, padding, max_width, max_height)
             width == rect.right - rect.left
             height == rect.bottom - rect.top
         IN  [tile |-> tile, width |-> width, height |-> height,
              buffer |-> default_buffer(width * height),
              filter_radius |-> radius, padding |-> padding]
    ELSE LET sz == tile_size(tile)
         IN  [tile |-> tile, width |-> sz.width, height |-> sz.height,
              buffer |-> default_buffer(sz.width * sz.height),
              filter_radius |-> None, padding |-> 0]

\* self.buffer[index] += sample, or the panic of an index out of bounds
add_at(buf, index, sample) ==
    IF buf.panic \/ index < 0 \/ index >= Len(buf.buffer)
    THEN [buf EXCEPT !.panic = TRUE]
    ELSE [buf EXCEPT !.buffer = Put(@, index,
                                    add_assign(At(buf.buffer, index), sample))]

\* the loops of AccumlationTileBuffer::add over py in y_min..y_max and px in
\* x_min..x_max, from their k-th pass on
RECURSIVE filter_loop(_, _, _, _, _, _, _)
filter_loop(self, buf, local, extent, value, filter, k) ==
    LET columns == Max2(extent.x_max - extent.x_min, 0)
        rows == Max2(extent.y_max - extent.y_min, 0)
    IN  IF k >= rows * columns THEN buf
        ELSE LET px == extent.x_min + (k % columns)
                 py == extent.y_min + (k \div columns)
                 dx == local.x - (Pixels(px) + (Pixels(1) \div 2))
                 dy == local.y - (Pixels(py) + (Pixels(1) \div 2))
             IN  With(calc_weight(filter, dx, dy), LAMBDA weight :
                 With(IF ~F32Eq(weight, AsF32(0))
                      THEN add_at(buf, py * self.width + px,
                                  PixelSample(F32Mul(value, weight), weight))
                      ELSE buf,
                      LAMBDA b : filter_loop(self, b, local, extent, value,
                                             filter, k + 1)))

\* AccumlationTileBuffer::add: the buffer after it, and whether it panicked
tile_add(self, ix, iy, x, y, value, filter) ==
    IF ~self.filter_radius.some
    THEN LET local_x == ix - self.tile.x1
             local_y == iy - self.tile.y1
         IN  add_at([buffer |-> self.buffer, panic |-> FALSE],
                    local_y * self.width + local_x,
                    PixelSample(value, AsF32(1)))
    ELSE LET radius == self.filter_radius.radius
             local == [x |-> x - Pixels(self.tile.x1),
                       y |-> y - Pixels(self.tile.y1)]
             extent == [x_min |-> Max2(Floor(local.x - radius), 0),
                        x_max |-> Min2(Ceil(local.x + radius), self.width),
                        y_min |-> Max2(Floor(local.y - radius), 0),
                        y_max |-> Min2(Ceil(local.y + radius), self.height)]
         IN  filter_loop(self, [buffer |-> self.buffer, panic |-> FALSE],
                         local, extent, value, filter, 0)

\* the index of a row of the tile itself, without its padding
src_index_by_tile_width(tb, curx, cury) ==
    curx + cury * (tb.tile.x2 - tb.tile.x1)

\* let src_index = curx + cury * tile_buffer.width
src_index(tb, curx, cury) == curx + cury * tb.width

\* the index of the first pixel of the row
dst_index_of_row(sz, x, y) == y * sz.width

\* let dst_index = x + y * self.size.width
dst_index(sz, x, y) == x + y * sz.width

\* the loops of add_accumulation_tile_buffer over y in top..bottom and x in
\* left..right, from their k-th pass on: the buffer, the indices written and
\* whether an index was out of bounds
RECURSIVE merge_loop(_, _, _, _, _)
merge_loop(sz, tb, rect, acc, k) ==
    LET columns == Max2(rect.right - rect.left, 0)
        rows == Max2(rect.bottom - rect.top, 0)
    IN  IF k >= rows * columns \/ acc.panic THEN acc
        ELSE LET curx == k % columns
                 cury == k \div columns
                 src == src_index(tb, curx, cury)
                 dst == dst_index(sz, rect.left + curx, rect.top + cury)
             IN  With(IF src >= Len(tb.buffer) \/ dst >= Len(acc.buffer)
                      THEN [acc EXCEPT !.panic = TRUE]
                      ELSE [buffer |-> Put(acc.buffer, dst,
                                           add_assign(At(acc.buffer, dst),
                                                      At(tb.buffer, src))),
                            written |-> acc.written \cup {dst},
                            panic |-> FALSE],
                      LAMBDA a : merge_loop(sz, tb, rect, a, k + 1))

\* AccumlationBuffer::add_accumulation_tile_buffer
add_accumulation_tile_buffer(sz, buf, tb) ==
    merge_loop(sz, tb, padded_rect(tb.tile, tb.padding, sz.width, sz.height),
               [buffer |-> buf, written |-> {}, panic |-> FALSE], 0)

\* the sub-pixel offsets a sampler returns, here 0, 1/4, 1/2 and 3/4
Offsets == 0..(Pixels(1) - 1)

\* AccumlationTileBuffer::new for the next tile, the tiles being rendered
\* one after the other
NewTileBuffer ==
    /\ current = 0
    /\ ~tile_panic
    /\ Len(merges) < Len(tiles)
    /\ \E k \in { Len(merges) + 1 } :
          /\ current' = k
          /\ tile_buffer' = AccumlationTileBufferNew(tiles[k], filter_radius,
                                                     size.width, size.height)
    /\ UNCHANGED <<filter_radius, tiles, samples, merges, tile_panic, buffer>>
    /\ UNCHANGED besideTile

\* the body of the loop of random_walk_integrator: a sample of a pixel of the
\* tile is added to the tile buffer
TileAdd ==
    /\ current # 0
    /\ ~tile_panic
    /\ Len(samples) < MaxSamplesAdded
    /\ \E ix \in tiles[current].x1..(tiles[current].x2 - 1),
          iy \in tiles[current].y1..(tiles[current].y2 - 1),
          sx \in Offsets, sy \in Offsets, value \in { AsF32(3) } :
          \E r \in { tile_add(tile_buffer, ix, iy, Pixels(ix) + sx,
                              Pixels(iy) + sy, value, filter_radius) } :
             /\ tile_panic' = r.panic
             /\ tile_buffer' = [tile_buffer EXCEPT !.buffer = r.buffer]
             /\ samples' = Append(samples,
                                  [tile |-> current, x |-> Pixels(ix) + sx,
                                   y |-> Pixels(iy) + sy, value |-> value])
    /\ UNCHANGED <<filter_radius, tiles, current, merges, buffer>>
    /\ UNCHANGED besideTile

\* accum.add_accumulation_tile_buffer(&tile_buffer)
MergeTile ==
    /\ current # 0
    /\ ~tile_panic
    /\ \E r \in { add_accumulation_tile_buffer(size, buffer, tile_buffer) } :
          /\ tile_panic' = r.panic
          /\ buffer' = r.buffer
          /\ merges' = Append(merges, [tile |-> current, written |-> r.written])
    /\ current' = 0
    /\ UNCHANGED <<filter_radius, tiles, tile_buffer, samples>>
    /\ UNCHANGED besideTile

----------------------------------------------------------------------------
(* Geometry (src/shapes.rs) and the ray-shape tests (src/isect.rs).         *)
(* Coordinates and distances are small integers, and the shapes and rays of *)
(* the model are chosen so that every f32 product, quotient and square root *)
(* of the code is exact on them.  Shapes carry no object_to_world.          *)

\* Vec3 and Point3 (src/vec.rs)
VAdd(a, b) == <<a[1] + b[1], a[2] + b[2], a[3] + b[3]>>

VSub(a, b) == <<a[1] - b[1], a[2] - b[2], a[3] - b[3]>>

VScale(k, v) == <<k * v[1], k * v[2], k * v[3]>>

VNeg(v) == <<0 - v[1], 0 - v[2], 0 - v[3]>>

\* f32 sum, difference and product: NaN when an operand is NaN
FAdd(a, b) == IF a = F32_NAN \/ b = F32_NAN THEN F32_NAN ELSE a + b

FSub(a, b) == IF a = F32_NAN \/ b = F32_NAN THEN F32_NAN ELSE a - b

FMul(a, b) == IF a = F32_NAN \/ b = F32_NAN THEN F32_NAN ELSE a * b

\* difference_of_products(a, b, c, d): a * b - c * d, rounded once
difference_of_products(a, b, c, d) == FSub(FMul(a, b), FMul(c, d))

\* Mul for Vec3: the dot product
Dot(a, b) == FAdd(FAdd(FMul(a[1], b[1]), FMul(a[2], b[2])), FMul(a[3], b[3]))

\* Vec3::cross
Cross(a, b) ==
    <<difference_of_products(a[2], b[3], a[3], b[2]),
      difference_of_products(a[3], b[1], a[1], b[3]),
      difference_of_products(a[1], b[2], a[2], b[1])>>

\* Point3::min and Point3::max, component by component
VMin(a, b) == <<Min2(a[1], b[1]), Min2(a[2], b[2]), Min2(a[3], b[3])>>

VMax(a, b) == <<Max2(a[1], b[1]), Max2(a[2], b[2]), Max2(a[3], b[3])>>

\* f32::sqrt of a perfect square, or of NaN
Sqrt(n) == IF n = F32_NAN THEN F32_NAN ELSE CHOOSE r \in 0..n : r * r = n

\* Vec3::length
length(v) == Sqrt(Dot(v, v))

\* Vec3::normalize: the vector num / den, den the length of num.  For the
\* zero vector den is 0: every component is 0.0 * (1.0 / 0.0), a NaN.
normalize(v) == [num |-> v, den |-> Sqrt(Dot(v, v))]

\* the components of the normalized vector are NaN
IsNaN(normal) == normal.den = 0 \/ normal.den = F32_NAN

\* the components of a normalized vector whose length divides them
components(n) ==
    IF IsNaN(n) THEN <<F32_NAN, F32_NAN, F32_NAN>>
    ELSE <<n.num[1] \div n.den, n.num[2] \div n.den, n.num[3] \div n.den>>

\* Ray::point_at
point_at(r, t) == VAdd(r.origin, VScale(t, r.direction))

\* isect_ray_sphere.  b_prime is -(f * direction), which is -0.0 when the
\* product is 0.0, and signum(-0.0) is -1.0.
isect_ray_sphere(r, position, radius, tmin, tmax) ==
    LET f == VSub(r.origin, position)
        c == Dot(f, f) - radius * radius
        b_prime == 0 - Dot(f, r.direction)
        tmp == VAdd(f, VScale(b_prime, r.direction))
        discriminant == radius * radius - Dot(tmp, tmp)
    IN  IF discriminant < 0 THEN NoHit
        ELSE LET signum == IF b_prime > 0 THEN 1 ELSE 0 - 1
                 q == b_prime + signum * Sqrt(discriminant)
             IN  IF q # 0 /\ (c \div q) > tmin /\ (c \div q) < tmax
                 THEN c \div q
                 ELSE IF q > tmin /\ q < tmax THEN q ELSE NoHit

\* isect_ray_triangle.  beta, gamma and t are e1, e2 and e3 over temp3.
isect_ray_triangle(r, v0, v1, v2, tmin) ==
    LET a == v0[1] - v1[1]
        b == v0[1] - v2[1]
        c == r.direction[1]
        d == v0[1] - r.origin[1]
        e == v0[2] - v1[2]
        f == v0[2] - v2[2]
        g == r.direction[2]
        h == v0[2] - r.origin[2]
        i == v0[3] - v1[3]
        j == v0[3] - v2[3]
        k == r.direction[3]
        l == v0[3] - r.origin[3]
        m == f * k - g * j
        n == h * k - g * l
        p == f * l - h * j
        q == g * i - e * k
        s == e * j - f * i
        temp3 == a * m + b * q + c * s
        sign == IF temp3 < 0 THEN 0 - 1 ELSE 1
        e1 == d * m - b * n - c * p
        rr == e * l - h * i
        e2 == a * n + d * q + c * rr
        e3 == a * p - b * rr + d * s
    IN  IF temp3 = 0 THEN NoHit
        ELSE IF e1 * sign < 0 THEN NoHit
        ELSE IF e2 * sign < 0 THEN NoHit
        ELSE IF (e1 + e2) * sign > temp3 * sign THEN NoHit
        ELSE IF e3 * sign < tmin * temp3 * sign THEN NoHit
        ELSE (e3 * sign) \div (temp3 * sign)

\* Sphere::new
Sphere(center, radius) == [center |-> center, radius |-> radius]

\* Intersect for Sphere: tmax is 1e38
sphere_intersect(self, r, tmin) ==
    isect_ray_sphere(r, self.center, self.radius, tmin, LINEAR_BIG_NUMBER)

\* CalculateNormal for Sphere
sphere_normal(self, hit_point) == normalize(VSub(hit_point, self.center))

\* BoundingBox for Sphere
sphere_bounding_box(self) ==
    AABB(VSub(self.center, <<self.radius, self.radius, self.radius>>),
         VAdd(self.center, <<self.radius, self.radius, self.radius>>))

\* From<(Vec<Point3>, Vec<u32>)> for Mesh
Mesh(vertices, indices) == [vertices |-> vertices, indices |-> indices]

\* the vertex k (0, 1 or 2) of the triangle triangle_id of a mesh
mesh_vertex(self, triangle_id, k) ==
    At(self.vertices, At(self.indices, triangle_id * 3 + k))

\* Mesh::bounding_box
mesh_bounding_box(self, triangle_id) ==
    LET v0 == mesh_vertex(self, triangle_id, 0)
        v1 == mesh_vertex(self, triangle_id, 1)
        v2 == mesh_vertex(self, triangle_id, 2)
    IN  AABB(VMin(VMin(v0, v1), v2), VMax(VMax(v0, v1), v2))

\* Mesh::normal
mesh_normal(self, triangle_id) ==
    LET v0 == mesh_vertex(self, triangle_id, 0)
        v1 == mesh_vertex(self, triangle_id, 1)
        v2 == mesh_vertex(self, triangle_id, 2)
    IN  normalize(Cross(VSub(v1, v0), VSub(v2, v0)))

\* Mesh::intersect
mesh_intersect(self, triangle_id, r, tmin) ==
    isect_ray_triangle(r, mesh_vertex(self, triangle_id, 0),
                       mesh_vertex(self, triangle_id, 1),
                       mesh_vertex(self, triangle_id, 2), tmin)

\* Geometry::new
GeometryNew ==
    [spheres |-> <<>>, sphere_materials |-> <<>>, sphere_bboxes |-> <<>>,
     meshes |-> <<>>, mesh_materials |-> <<>>, triangles |-> <<>>,
     triangle_bboxes |-> <<>>]

\* Primitives::add
add_sphere(self, sphere, material_id) ==
    [self EXCEPT !.spheres = Append(@, sphere),
                 !.sphere_materials = Append(@, material_id)]

\* Triangles::add
add_mesh(self, mesh, material_id) ==
    LET triangle_count == Len(mesh.indices) \div 3
        mesh_id == Len(self.meshes)
    IN  [self EXCEPT !.mesh_materials = Append(@, material_id),
                     !.triangles = @ \o [i \in 1..triangle_count |->
                                            [mesh_id |-> mesh_id,
                                             triangle_id |-> i - 1]],
                     !.meshes = Append(@, mesh)]

\* Geometry::prepare_for_rendering: the boxes of both LinearIntersectors
prepare_for_rendering(self) ==
    [self EXCEPT
        !.sphere_bboxes = [idx \in 1..Len(self.spheres) |->
                              sphere_bounding_box(self.spheres[idx])],
        !.triangle_bboxes = [idx \in 1..Len(self.triangles) |->
                                mesh_bounding_box(
                                    At(self.meshes, self.triangles[idx].mesh_id),
                                    self.triangles[idx].triangle_id)]]

\* 0-based access to the boxes and the hits of a LinearIntersector
ZeroBased(v) == [idx \in 0..(Len(v) - 1) |-> v[idx + 1]]

\* Primitives::intersect
spheres_intersect(self, r) ==
    linear_intersect(ZeroBased(self.sphere_bboxes),
                     [idx \in 0..(Len(self.spheres) - 1) |->
                         sphere_intersect(At(self.spheres, idx), r, 0)],
                     r, Len(self.sphere_bboxes))

\* Triangles::intersect
triangles_intersect(self, r) ==
    linear_intersect(ZeroBased(self.triangle_bboxes),
                     [idx \in 0..(Len(self.triangles) - 1) |->
                         mesh_intersect(
                             At(self.meshes, At(self.triangles, idx).mesh_id),
                             At(self.triangles, idx).triangle_id, r, 0)],
                     r, Len(self.triangle_bboxes))

\* Primitives::normal
spheres_normal(self, r, isect) ==
    sphere_normal(At(self.spheres, isect.shape_id), point_at(r, isect.t))

\* Triangles::normal
triangles_normal(self, isect) ==
    mesh_normal(At(self.meshes, At(self.triangles, isect.shape_id).mesh_id),
                At(self.triangles, isect.shape_id).triangle_id)

\* if (-ray.direction) * normal < 0.0 { normal = -normal; back_face = true; }
face_forward(r, normal) ==
    IF ~IsNaN(normal) /\ Dot(VNeg(r.direction), normal.num) < 0
    THEN [normal |-> [normal EXCEPT !.num = VNeg(@)], back_face |-> TRUE]
    ELSE [normal |-> normal, back_face |-> FALSE]

\* Geometry::surface_interaction
surface_interaction(self, r, type_id, isect) ==
    LET n == IF type_id = 0 THEN spheres_normal(self, r, isect)
             ELSE triangles_normal(self, isect)
        facing == face_forward(r, n)
        material_id ==
            IF type_id = 0 THEN At(self.sphere_materials, isect.shape_id)
            ELSE At(self.mesh_materials,
                    At(self.triangles, isect.shape_id).mesh_id)
    IN  [some |-> TRUE, t |-> isect.t, hit_point |-> point_at(r, isect.t),
         normal |-> facing.normal, material_id |-> material_id,
         back_face |-> facing.back_face]

\* unwrap_or(ShapeIntersection { t: -1.0, shape_id: 0 })
unwrap_or_miss(isect) == IF isect.some THEN isect ELSE Some(0 - 1, 0)

\* Geometry::intersect
geometry_intersect(self, r) ==
    LET sphere_isect == unwrap_or_miss(spheres_intersect(self, r))
        triangle_isect == unwrap_or_miss(triangles_intersect(self, r))
        sphere_first == sphere_isect.t > 0 /\ sphere_isect.t < LINEAR_BIG_NUMBER
        current_t_1 == IF sphere_first THEN sphere_isect.t ELSE LINEAR_BIG_NUMBER
        type_id == IF triangle_isect.t > 0 /\ triangle_isect.t < current_t_1
                   THEN 1
                   ELSE IF sphere_first THEN 0 ELSE 0 - 1
    IN  IF type_id = 0 THEN surface_interaction(self, r, 0, sphere_isect)
        ELSE IF type_id = 1 THEN surface_interaction(self, r, 1, triangle_isect)
        ELSE None

\* the triangle (-1,-1,z), (3,-1,z), (-1,3,z), or the same with the last two
\* vertices exchanged
FlatMesh(z, exchanged) ==
    Mesh(<<<<-1, -1, z>>, <<3, -1, z>>, <<-1, 3, z>>>>,
         IF exchanged THEN <<0, 2, 1>> ELSE <<0, 1, 2>>)

\* the spheres and the meshes of the model
SphereSet ==
    { Sphere(<<0, 0, 2>>, 1), Sphere(<<0, 0, 1>>, 1), Sphere(<<0, 0, 2>>, 0) }

MeshSet == { FlatMesh(z, x) : z \in 0..MaxT + 1, x \in BOOLEAN }

\* the rays of the model: along the z axis, from the z axis or beside it
GeomRaySet ==
    { [origin |-> <<x, 0, z>>, direction |-> <<0, 0, dz>>] :
        x \in 0..1, z \in 0..MaxT, dz \in {-1, 1} }

\* Geometry::add_sphere
AddSphere ==
    /\ geom_pc = "adding"
    /\ Len(geometry.spheres) < MaxShapes
    /\ \E sphere \in SphereSet :
          geometry' = add_sphere(geometry, sphere, Len(geometry.spheres))
    /\ UNCHANGED <<geom_pc, geom_ray, interaction>>
    /\ UNCHANGED besideGeometry

\* Geometry::add_mesh
AddMesh ==
    /\ geom_pc = "adding"
    /\ Len(geometry.meshes) < MaxShapes
    /\ \E mesh \in MeshSet :
          geometry' = add_mesh(geometry, mesh, Len(geometry.meshes))
    /\ UNCHANGED <<geom_pc, geom_ray, interaction>>
    /\ UNCHANGED besideGeometry

\* Geometry::prepare_for_rendering
PrepareForRendering ==
    /\ geom_pc = "adding"
    /\ geometry' = prepare_for_rendering(geometry)
    /\ geom_pc' = "prepared"
    /\ UNCHANGED <<geom_ray, interaction>>
    /\ UNCHANGED besideGeometry

\* Geometry::intersect
GeometryIntersect ==
    /\ geom_pc = "prepared"
    /\ \E r \in GeomRaySet :
          /\ geom_ray' = r
          /\ interaction' = geometry_intersect(geometry, r)
    /\ geom_pc' = "intersected"
    /\ UNCHANGED geometry
    /\ UNCHANGED besideGeometry

----------------------------------------------------------------------------
(* Matrix4x4 (src/matrix.rs), Transformation (src/transformations.rs) and   *)
(* AABB * Transformation (src/bbox.rs, src/shapes.rs).  The entries are     *)
(* small integers, or NaN; m[i][j] of the code is m[i + 1][j + 1] here.     *)

\* Matrix4x4::identity
identity ==
    <<<<1, 0, 0, 0>>, <<0, 1, 0, 0>>, <<0, 0, 1, 0>>, <<0, 0, 0, 1>>>>

\* inner_product of math.rs, from the term i on: the sum of the products, in
\* twice the working precision
RECURSIVE inner_from(_, _, _)
inner_from(x, y, i) ==
    IF i > Len(x) THEN 0
    ELSE FAdd(FMul(x[i], y[i]), inner_from(x, y, i + 1))

inner_product(x, y) == inner_from(x, y, 1)

\* Mul for Matrix4x4
matrix_mul(self, m2) ==
    LET entry(i, j) ==
            inner_product(<<self[i][1], self[i][2], self[i][3], self[i][4]>>,
                          <<m2[1][j], m2[2][j], m2[3][j], m2[4][j]>>)
        row(i) == <<entry(i, 1), entry(i, 2), entry(i, 3), entry(i, 4)>>
    IN  <<row(1), row(2), row(3), row(4)>>

\* -x
FNeg(x) == IF x = F32_NAN THEN F32_NAN ELSE 0 - x

\* 1.0 / determinant, for a determinant of -1 or 1, or NaN
FRecip(x) == IF x = F32_NAN THEN F32_NAN ELSE Recip(x)

\* Matrix4x4::inverse: None for a determinant equal to 0.0
matrix_inverse(self) ==
    LET m(i, j) == self[i + 1][j + 1]
        s0 == difference_of_products(m(0, 0), m(1, 1), m(1, 0), m(0, 1))
        s1 == difference_of_products(m(0, 0), m(1, 2), m(1, 0), m(0, 2))
        s2 == difference_of_products(m(0, 0), m(1, 3), m(1, 0), m(0, 3))
        s3 == difference_of_products(m(0, 1), m(1, 2), m(1, 1), m(0, 2))
        s4 == difference_of_products(m(0, 1), m(1, 3), m(1, 1), m(0, 3))
        s5 == difference_of_products(m(0, 2), m(1, 3), m(1, 2), m(0, 3))
        c0 == difference_of_products(m(2, 0), m(3, 1), m(3, 0), m(2, 1))
        c1 == difference_of_products(m(2, 0), m(3, 2), m(3, 0), m(2, 2))
        c2 == difference_of_products(m(2, 0), m(3, 3), m(3, 0), m(2, 3))
        c3 == difference_of_products(m(2, 1), m(3, 2), m(3, 1), m(2, 2))
        c4 == difference_of_products(m(2, 1), m(3, 3), m(3, 1), m(2, 3))
        c5 == difference_of_products(m(2, 2), m(3, 3), m(3, 2), m(2, 3))
        determinant == inner_product(<<s0, FNeg(s1), s2, s3, s5, FNeg(s4)>>,
                                     <<c5, c4, c3, c2, c0, c1>>)
        s == FRecip(determinant)
        inv(x, y) == FMul(s, inner_product(x, y))
    IN  IF determinant = 0 THEN [some |-> FALSE]
        ELSE [some |-> TRUE, m |->
              << << inv(<<m(1, 1), m(1, 3), FNeg(m(1, 2))>>, <<c5, c3, c4>>),
                    inv(<<FNeg(m(0, 1)), m(0, 2), FNeg(m(0, 3))>>, <<c5, c4, c3>>),
                    inv(<<m(3, 1), m(3, 3), FNeg(m(3, 2))>>, <<s5, s3, s4>>),
                    inv(<<FNeg(m(2, 1)), m(2, 2), FNeg(m(2, 3))>>, <<s5, s4, s3>>) >>,
                 << inv(<<FNeg(m(1, 0)), m(1, 2), FNeg(m(1, 3))>>, <<c5, c2, c1>>),
                    inv(<<m(0, 0), m(0, 3), FNeg(m(0, 2))>>, <<c5, c1, c2>>),
                    inv(<<FNeg(m(3, 0)), m(3, 2), FNeg(m(3, 3))>>, <<s5, s2, s1>>),
                    inv(<<m(2, 0), m(2, 3), FNeg(m(2, 2))>>, <<s5, s1, s2>>) >>,
                 << inv(<<m(1, 0), m(1, 3), FNeg(m(1, 1))>>, <<c4, c0, c2>>),
                    inv(<<FNeg(m(0, 0)), m(0, 1), FNeg(m(0, 3))>>, <<c4, c2, c0>>),
                    inv(<<m(3, 0), m(3, 3), FNeg(m(3, 1))>>, <<s4, s0, s2>>),
                    inv(<<FNeg(m(2, 0)), m(2, 1), FNeg(m(2, 3))>>, <<s4, s2, s0>>) >>,
                 << inv(<<FNeg(m(1, 0)), m(1, 1), FNeg(m(1, 2))>>, <<c3, c1, c0>>),
                    inv(<<m(0, 0), m(0, 2), FNeg(m(0, 1))>>, <<c3, c0, c1>>),
                    inv(<<FNeg(m(3, 0)), m(3, 1), FNeg(m(3, 2))>>, <<s3, s1, s0>>),
                    inv(<<m(2, 0), m(2, 2), FNeg(m(2, 1))>>, <<s3, s0, s1>>) >> >>]

\* struct Transformation
Transformation(mat, inv_mat) == [mat |-> mat, inv_mat |-> inv_mat]

\* Transformation::scale, for factors of -1 or 1
scale(x, y, z) ==
    Transformation(
        <<<<x, 0, 0, 0>>, <<0, y, 0, 0>>, <<0, 0, z, 0>>, <<0, 0, 0, 1>>>>,
        <<<<Recip(x), 0, 0, 0>>, <<0, Recip(y), 0, 0>>, <<0, 0, Recip(z), 0>>,
          <<0, 0, 0, 1>>>>)

\* Transformation::translate
translate(delta) ==
    Transformation(
        <<<<1, 0, 0, delta[1]>>, <<0, 1, 0, delta[2]>>, <<0, 0, 1, delta[3]>>,
          <<0, 0, 0, 1>>>>,
        <<<<1, 0, 0, 0 - delta[1]>>, <<0, 1, 0, 0 - delta[2]>>,
          <<0, 0, 1, 0 - delta[3]>>, <<0, 0, 0, 1>>>>)

\* Transformation::inverse
inverse(self) == Transformation(self.inv_mat, self.mat)

\* the inverses are multiplied in the order of the matrices
transformation_mul_same_order(self, other) ==
    Transformation(matrix_mul(self.mat, other.mat),
                   matrix_mul(self.inv_mat, other.inv_mat))

\* Mul for Transformation
transformation_mul(self, other) ==
    Transformation(matrix_mul(self.mat, other.mat),
                   matrix_mul(other.inv_mat, self.inv_mat))

\* Mul<Point3> for Transformation: the point under the affine matrix, its
\* translation included
transform_point(self, point) ==
    LET coordinate(i) ==
            inner_product(<<self.mat[i][1], self.mat[i][2], self.mat[i][3],
                            self.mat[i][4]>>,
                          <<point[1], point[2], point[3], 1>>)
    IN  <<coordinate(1), coordinate(2), coordinate(3)>>

\* Mul<Transformation> for AABB
aabb_mul(self, rhs) ==
    LET delta == VSub(self.max, self.min)
        p1 == transform_point(rhs, self.min)
        p2 == transform_point(rhs, self.max)
        p3 == transform_point(rhs, VAdd(self.min, <<delta[1], 0, 0>>))
        p4 == transform_point(rhs, VAdd(self.min, <<0, delta[2], 0>>))
        p5 == transform_point(rhs, VAdd(self.min, <<delta[1], delta[2], 0>>))
        p6 == transform_point(rhs, VAdd(self.max, <<delta[1], 0, 0>>))
        p7 == transform_point(rhs, VAdd(self.max, <<0, delta[2], 0>>))
        p8 == transform_point(rhs, VAdd(self.max, <<delta[1], delta[2], 0>>))
    IN  AABB(VMin(VMin(VMin(VMin(VMin(VMin(VMin(p1, p2), p3), p4), p5), p6),
                       p7), p8),
             VMax(VMax(VMax(VMax(VMax(VMax(VMax(p1, p2), p3), p4), p5), p6),
                       p7), p8))

\* Transformation::look_at: the Transformation, or the panic
look_at(pos, look, up) ==
    LET dir == components(normalize(VSub(look, pos)))
        side == Cross(components(normalize(up)), dir)
    IN  IF length(side) = 0 THEN [panic |-> TRUE]
        ELSE LET right == components(normalize(side))
                 new_up == Cross(dir, right)
                 mat == <<<<right[1], new_up[1], dir[1], pos[1]>>,
                          <<right[2], new_up[2], dir[2], pos[2]>>,
                          <<right[3], new_up[3], dir[3], pos[3]>>,
                          <<0, 0, 0, 1>>>>
             IN  With(matrix_inverse(mat), LAMBDA inv_mat :
                     IF ~inv_mat.some THEN [panic |-> TRUE]
                     ELSE [panic |-> FALSE,
                           value |-> Transformation(mat, inv_mat.m)])

\* the transformations made by Transformation::translate and ::scale
Generators ==
    { translate(<<1, 0, 0>>), translate(<<0, 2, -1>>),
      scale(-1, 1, 1), scale(1, -1, -1) }

\* the boxes transformed
TransformedBoxes == { AABB(<<-1, 0, 2>>, <<1, 3, 4>>) }

\* the arguments of look_at: pos, look - pos and up
LookPositions == { <<1, 2, 3>> }

LookOffsets == { <<0, 0, 0>>, <<2, 0, 0>>, <<0, 0, -3>> }

LookUps == { <<0, 1, 0>>, <<0, 0, 2>> }

\* Transformation::translate or ::scale
TransformationNew ==
    /\ xf_b' \in Generators
    /\ UNCHANGED <<xf_a, xf_product, bbox_out, look_out>>
    /\ UNCHANGED besideTransform

\* Transformation::inverse
Inverse ==
    /\ xf_b' = inverse(xf_b)
    /\ UNCHANGED <<xf_a, xf_product, bbox_out, look_out>>
    /\ UNCHANGED besideTransform

\* a * b, and the product taken as the next a
Multiply ==
    /\ xf_product.count < MaxProducts
    /\ \E r \in { transformation_mul(xf_a, xf_b) } :
          /\ xf_product' = [a |-> xf_a, b |-> xf_b, value |-> r,
                            count |-> xf_product.count + 1]
          /\ xf_a' = r
    /\ UNCHANGED <<xf_b, bbox_out, look_out>>
    /\ UNCHANGED besideTransform

\* bbox * a, of one box
TransformBox ==
    /\ bbox_out = None
    /\ \E bbox \in TransformedBoxes :
          bbox_out' = [some |-> TRUE, bbox |-> bbox, by |-> xf_a,
                       value |-> aabb_mul(bbox, xf_a)]
    /\ UNCHANGED <<xf_a, xf_b, xf_product, look_out>>
    /\ UNCHANGED besideTransform

\* Transformation::look_at, of one camera
LookAt ==
    /\ look_out = None
    /\ \E pos \in LookPositions, offset \in LookOffsets, up \in LookUps :
          \E r \in { look_at(pos, VAdd(pos, offset), up) } :
             look_out' = [some |-> TRUE, pos |-> pos,
                          look |-> VAdd(pos, offset), up |-> up,
                          outcome |-> r]
    /\ UNCHANGED <<xf_a, xf_b, xf_product, bbox_out>>
    /\ UNCHANGED besideTransform

----------------------------------------------------------------------------
(* Tile::split and the TileIterator (src/tile.rs) *)

\* the iterator starts one row down
into_iter_below_first_row(self) ==
    [tile |-> self, x |-> self.x1, y |-> self.y1 + 1]

\* IntoIterator for Tile
into_iter(self) == [tile |-> self, x |-> self.x1, y |-> self.y1]

\* Some((x, y))
SomePixel(x, y) == [some |-> TRUE, x |-> x, y |-> y]

\* the iterator goes back to x1 when it has passed the first column
tile_iterator_next_from_x1(self) ==
    IF self.y >= self.tile.y2 THEN [iter |-> self, item |-> None]
    ELSE [iter |-> IF self.x > self.tile.x1
                   THEN [self EXCEPT !.x = self.tile.x1, !.y = self.y + 1]
                   ELSE [self EXCEPT !.x = self.x + 1],
          item |-> SomePixel(self.x, self.y)]

\* TileIterator::next: the iterator after the call and the item returned
tile_iterator_next(self) ==
    IF self.y >= self.tile.y2 THEN [iter |-> self, item |-> None]
    ELSE [iter |-> IF self.x + 1 >= self.tile.x2
                   THEN [self EXCEPT !.x = self.tile.x1, !.y = self.y + 1]
                   ELSE [self EXCEPT !.x = self.x + 1],
          item |-> SomePixel(self.x, self.y)]

\* the tiles split and iterated: Tile::new asserts x1 < x2 and y1 < y2
IterTiles ==
    { Tile(x1, y1, x1 + w, y1 + h) :
        x1 \in {0, 1}, y1 \in {0, 2},
        w \in 1..(MaxTileSize + 1), h \in 1..(MaxTileSize + 1) }

\* Tile::split of the tile of the iterator
TileSplit ==
    /\ \E x_size \in 1..(MaxTileSize + 1), y_size \in 1..(MaxTileSize + 1) :
          split_call' = [some |-> TRUE, tile |-> tile_iter.tile,
                         x_size |-> x_size, y_size |-> y_size,
                         value |-> split(tile_iter.tile, x_size, y_size)]
    /\ UNCHANGED <<tile_iter, yielded>>
    /\ UNCHANGED besideIter

\* for (x, y) in tile, over a tile of the split
TileIntoIter ==
    /\ split_call.some
    /\ yielded = <<>>
    /\ \E k \in 1..Len(split_call.value) :
          tile_iter' = into_iter(split_call.value[k])
    /\ split_call' = None
    /\ UNCHANGED yielded
    /\ UNCHANGED besideIter

\* TileIterator::next, up to MaxNones calls after the last pixel
TileIteratorNext ==
    /\ Len(yielded) < tile_size(tile_iter.tile).width
                        * tile_size(tile_iter.tile).height + MaxNones
    /\ \E r \in { tile_iterator_next(tile_iter) } :
          /\ tile_iter' = r.iter
          /\ yielded' = Append(yielded, r.item)
    /\ UNCHANGED split_call
    /\ UNCHANGED besideIter

----------------------------------------------------------------------------
(* The parser of PBRT input (src/pbrt_v4.rs): the ParseState and the         *)
(* directives of parse_input_string.  A directive is read with its          *)
(* parameters, well formed or not; the tokens themselves are not modelled.  *)

\* ParseState::new
ParseStateNew ==
    [transformations |-> << Transformation(identity, identity) >>,
     materials |-> <<>>,
     area_lights |-> <<>>]

\* SceneDescription::default, as far as the directives modelled fill it
SceneDescriptionDefault == [materials |-> 0, shapes |-> <<>>]

\* Vec::last and Vec::pop
Last(v) == v[Len(v)]

Pop(v) == IF v = <<>> THEN v ELSE SubSeq(v, 1, Len(v) - 1)

\* a panic
Abort == [abort |-> TRUE]

Return(value) == [abort |-> FALSE, value |-> value]

\* ParseState::current_transformation
current_transformation(self) ==
    IF self.transformations = <<>> THEN Abort
    ELSE Return(Last(self.transformations))

\* ParseState::current_material
current_material(self) ==
    IF self.materials = <<>> THEN Abort ELSE Return(Last(self.materials))

\* the area lights are left as they are
push_state_without_area_lights(self) ==
    IF current_transformation(self).abort \/ current_material(self).abort
    THEN Abort
    ELSE Return([self EXCEPT
            !.transformations = Append(@, current_transformation(self).value),
            !.materials = Append(@, current_material(self).value)])

\* ParseState::push_state
push_state(self) ==
    IF current_transformation(self).abort \/ current_material(self).abort
    THEN Abort
    ELSE Return([transformations |->
                    Append(self.transformations, current_transformation(self).value),
                 materials |->
                    Append(self.materials, current_material(self).value),
                 area_lights |->
                    IF self.area_lights # <<>>
                    THEN Append(self.area_lights, Last(self.area_lights))
                    ELSE self.area_lights])

\* ParseState::pop_state
pop_state(self) ==
    [transformations |-> Pop(self.transformations),
     materials |-> Pop(self.materials),
     area_lights |-> Pop(self.area_lights)]

\* ParseState::set_transformation
set_transformation(self, transformation) ==
    IF self.transformations # <<>>
    THEN [self EXCEPT !.transformations[Len(self.transformations)] = transformation]
    ELSE self

\* ParseState::set_material
set_material(self, material) ==
    IF self.materials = <<>>
    THEN [self EXCEPT !.materials = <<material>>]
    ELSE [self EXCEPT !.materials[Len(self.materials)] = material]

\* ParseState::set_area_light
set_area_light(self, material) ==
    IF self.area_lights = <<>>
    THEN [self EXCEPT !.area_lights = <<material>>]
    ELSE [self EXCEPT !.area_lights[Len(self.area_lights)] = material]

\* what a process_ function leaves: the outcome "next" for Ok(..), "err" for
\* Err(..), "abort" for a panic, with the state and the scene
Outcome(outcome, state, scene) ==
    [outcome |-> outcome, state |-> state, scene |-> scene]

\* process_attribute_begin
process_attribute_begin(scene, state) ==
    IF push_state(state).abort THEN Outcome("abort", state, scene)
    ELSE Outcome("next", push_state(state).value, scene)

\* process_attribute_end
process_attribute_end(scene, state) ==
    Outcome("next", pop_state(state), scene)

\* the name process_material gives a material
GeneratedName(scene) == [emissive |-> FALSE, n |-> scene.materials]

\* the name process_area_diffuse_light gives a material
GeneratedEmissiveName(scene) == [emissive |-> TRUE, n |-> scene.materials]

\* process_material with process_diffuse_material: the name is set whether the
\* parameters are well formed or not
process_material(scene, state, well_formed) ==
    IF well_formed
    THEN Outcome("next", set_material(state, GeneratedName(scene)),
                 [scene EXCEPT !.materials = @ + 1])
    ELSE Outcome("err", set_material(state, GeneratedName(scene)), scene)

\* process_area_light_source with process_area_diffuse_light
process_area_light_source(scene, state, well_formed) ==
    IF well_formed
    THEN Outcome("next", set_area_light(state, GeneratedEmissiveName(scene)),
                 [scene EXCEPT !.materials = @ + 1])
    ELSE Outcome("err", state, scene)

\* process_translate_transform
process_translate_transform(scene, state, delta) ==
    IF current_transformation(state).abort THEN Outcome("abort", state, scene)
    ELSE Outcome("next",
                 set_transformation(state,
                     transformation_mul(current_transformation(state).value,
                                        translate(delta))),
                 scene)

\* process_identity_transform, and process_world_begin
process_identity_transform(scene, state) ==
    Outcome("next",
            set_transformation(state, Transformation(identity, identity)), scene)

\* process_shape with process_sphere_shape: the material is the area light's,
\* or else the current material; the transformation is kept unless it is the
\* identity
process_shape(scene, state, well_formed) ==
    IF ~well_formed THEN Outcome("err", state, scene)
    ELSE IF state.area_lights = <<>> /\ current_material(state).abort
    THEN Outcome("abort", state, scene)
    ELSE IF current_transformation(state).abort
    THEN Outcome("abort", state, scene)
    ELSE Outcome("next", state,
                 [scene EXCEPT !.shapes = Append(@,
                    [material |-> IF state.area_lights # <<>>
                                  THEN Last(state.area_lights)
                                  ELSE current_material(state).value,
                     transform |->
                        IF current_transformation(state).value
                              # Transformation(identity, identity)
                        THEN [some |-> TRUE,
                              value |-> current_transformation(state).value]
                        ELSE None])])

\* the current transformation, material and area light, or their absence
Current(state) ==
    [transformation |-> IF state.transformations = <<>> THEN None
                        ELSE [some |-> TRUE, value |-> Last(state.transformations)],
     material |-> IF state.materials = <<>> THEN None
                  ELSE [some |-> TRUE, value |-> Last(state.materials)],
     area_light |-> IF state.area_lights = <<>> THEN None
                    ELSE [some |-> TRUE, value |-> Last(state.area_lights)]]

\* one round of the loop of parse_input_string: the directive is processed and
\* its Err or its panic ends the parsing
Processed(r) ==
    /\ parse_state' = r.state
    /\ scene_desc' = r.scene
    /\ parse_result' = IF r.outcome = "next" THEN "parsing" ELSE r.outcome
    /\ n_directives' = n_directives + 1

Parsing == parse_result = "parsing" /\ n_directives < MaxDirectives

\* "AttributeBegin"
AttributeBegin ==
    /\ Parsing
    /\ \E r \in { process_attribute_begin(scene_desc, parse_state) } :
          /\ Processed(r)
          /\ saved' = IF r.outcome = "next"
                      THEN Append(saved, Current(parse_state)) ELSE saved
    /\ UNCHANGED balanced
    /\ UNCHANGED besideParse

\* "AttributeEnd"
AttributeEnd ==
    /\ Parsing
    /\ \E r \in { process_attribute_end(scene_desc, parse_state) } :
          /\ Processed(r)
          /\ saved' = Pop(saved)
          /\ balanced' = IF saved = <<>> THEN balanced
                         ELSE Append(balanced,
                                     [before |-> Last(saved),
                                      inside |-> Current(parse_state),
                                      after |-> Current(r.state),
                                      depth |-> Len(saved)])
    /\ UNCHANGED besideParse

\* "Material"
Material ==
    /\ Parsing
    /\ \E well_formed \in BOOLEAN :
          Processed(process_material(scene_desc, parse_state, well_formed))
    /\ UNCHANGED <<saved, balanced>>
    /\ UNCHANGED besideParse

\* "AreaLightSource"
AreaLightSource ==
    /\ Parsing
    /\ \E well_formed \in BOOLEAN :
          Processed(process_area_light_source(scene_desc, parse_state, well_formed))
    /\ UNCHANGED <<saved, balanced>>
    /\ UNCHANGED besideParse

\* "Translate"
Translate ==
    /\ Parsing
    /\ Processed(process_translate_transform(scene_desc, parse_state, <<1, 0, 0>>))
    /\ UNCHANGED <<saved, balanced>>
    /\ UNCHANGED besideParse

\* "Identity" and "WorldBegin"
IdentityDirective ==
    /\ Parsing
    /\ Processed(process_identity_transform(scene_desc, parse_state))
    /\ UNCHANGED <<saved, balanced>>
    /\ UNCHANGED besideParse

\* "Shape"
Shape ==
    /\ Parsing
    /\ \E well_formed \in BOOLEAN :
          Processed(process_shape(scene_desc, parse_state, well_formed))
    /\ UNCHANGED <<saved, balanced>>
    /\ UNCHANGED besideParse

\* a directive parse_input_string does not process, such as "Texture"
UnsupportedDirective ==
    /\ Parsing
    /\ Processed(Outcome("err", parse_state, scene_desc))
    /\ UNCHANGED <<saved, balanced>>
    /\ UNCHANGED besideParse

\* the tokens have run out: Ok(())
EndOfInput ==
    /\ parse_result = "parsing"
    /\ parse_result' = "ok"
    /\ UNCHANGED <<parse_state, scene_desc, n_directives, saved, balanced>>
    /\ UNCHANGED besideParse

----------------------------------------------------------------------------
(* The outer loops of the integrators (src/integrators.rs).  The radiance   *)
(* of a ray is one colour; what it draws from the sampler is left out,      *)
(* sample_pixel setting the pixel, the iteration and the dimension          *)
(* anew.  random_walk_integrator runs without a filter here; its adds with  *)
(* a filter are those of the tile buffer above.                             *)

\* hash!(e1, e2, e3)
hash3(e1, e2, e3) == murmur_hash64a(e1 \o e2 \o e3, ZeroExtend(ToU32(0)))

\* StratifiedPathSampler::initialize
initialize(self, tile, iteration) ==
    [self EXCEPT !.pcg_rng =
        PCGRng(hash3(self.seed, ZeroExtend(ToU32(tile.x1)),
                     ZeroExtend(ToU32(tile.y1))),
               ZeroExtend(ToU32(iteration)))]

\* AccumlationBuffer::add: the buffer after it
AccumlationBuffer_add(sz, buf, x, y, value) ==
    Put(buf, buffer_index(sz, x, y),
        add_assign(At(buf, buffer_index(sz, x, y)),
                   PixelSample(value, AsF32(1))))

\* the integrators
Integrators == {"ambient_occlusion", "direct_lgt", "random_walk"}

\* the locals of an integrator before its loop
IntegratorStart(kind, spp, resolution, sampler_created) ==
    LET tile == Tile(0, 0, resolution.width, resolution.height)
    IN  [kind |-> kind,
         spp |-> spp,
         tile |-> tile,
         accum |-> AccumlationBufferNew(tile_size(tile)),
         tile_buffer |-> IF kind = "random_walk"
                         THEN AccumlationTileBufferNew(tile, None,
                                  resolution.width, resolution.height)
                         ELSE None,
         sampler |-> initialize(sampler_created, tile, 0),
         i |-> 0,
         iter |-> None,
         pc |-> "for_i"]

\* accum.add(x, y, &rgb), or tile_buffer.add(x, y, px, py, &rgb,
\* &calc_weight) with no filter: the integrator after it
accumulate(self, x, y, rgb) ==
    IF self.kind = "random_walk"
    THEN With(tile_add(self.tile_buffer, x, y, Pixels(x), Pixels(y), rgb, None),
              LAMBDA r :
                 IF r.panic THEN [self EXCEPT !.pc = "abort"]
                 ELSE [self EXCEPT !.tile_buffer.buffer = r.buffer])
    ELSE [self EXCEPT !.accum =
             AccumlationBuffer_add(tile_size(self.tile), @, x, y, rgb)]

\* for i in 0..spp: the next iteration starts, and with it `for (x, y) in tile`
IntegratorIteration ==
    /\ integrator.pc = "for_i"
    /\ integrator.i < integrator.spp
    /\ integrator' = [integrator EXCEPT
                         !.iter = [some |-> TRUE,
                                   value |-> into_iter(integrator.tile)],
                         !.pc = "for_pixel"]
    /\ UNCHANGED sample_calls
    /\ UNCHANGED besideInteg

\* the body of the loops for one pixel
IntegratorPixel ==
    /\ integrator.pc = "for_pixel"
    /\ \E n \in { tile_iterator_next(integrator.iter.value) } :
          /\ n.item.some
          /\ \E r \in { sample_pixel(integrator.sampler, n.item.x, n.item.y,
                                     integrator.i, overflow_checks) } :
                /\ sample_calls' = Append(sample_calls,
                                          [x |-> n.item.x, y |-> n.item.y,
                                           i |-> integrator.i])
                /\ IF r.panic
                   THEN integrator' = [integrator EXCEPT !.pc = "abort"]
                   ELSE \E rgb \in { AsF32(3) } :
                           integrator' =
                              accumulate([integrator EXCEPT
                                             !.sampler = r.sampler,
                                             !.iter.value = n.iter],
                                         n.item.x, n.item.y, rgb)
    /\ UNCHANGED besideInteg

\* the tile has no pixel left: the iteration ends
IntegratorIterationEnd ==
    /\ integrator.pc = "for_pixel"
    /\ \E n \in { tile_iterator_next(integrator.iter.value) } :
          /\ ~n.item.some
          /\ integrator' = [integrator EXCEPT !.iter = None,
                                              !.i = @ + 1,
                                              !.pc = "for_i"]
    /\ UNCHANGED sample_calls
    /\ UNCHANGED besideInteg

\* after the loops: random_walk_integrator merges its tile buffer, and the
\* buffer is ready for to_rgb8_buffer
IntegratorFinish ==
    /\ integrator.pc = "for_i"
    /\ integrator.i >= integrator.spp
    /\ IF integrator.kind = "random_walk"
       THEN \E r \in { add_accumulation_tile_buffer(
                          tile_size(integrator.tile), integrator.accum,
                          integrator.tile_buffer) } :
               integrator' = [integrator EXCEPT
                                 !.accum = r.buffer,
                                 !.pc = IF r.panic THEN "abort" ELSE "done"]
       ELSE integrator' = [integrator EXCEPT !.pc = "done"]
    /\ UNCHANGED sample_calls
    /\ UNCHANGED besideInteg

----------------------------------------------------------------------------
(* random_walk (src/integrators.rs).  The scene answers an intersection     *)
(* query with a miss or with one of a few hits; a hit has its emission le   *)
(* and what material.eval returns for the direction drawn: None, or a       *)
(* colour, carried here as the factor fcos * pdfw.recip() of the            *)
(* recursion.  The calls not yet returned are the frames of the path.       *)

\* what scene.geometry.intersect and the material of the hit give
Hit(le, eval) == [some |-> TRUE, le |-> le, eval |-> eval]

\* Some(res) of material.eval, as fcos * sample_dist.pdfw.recip()
SomeFactor(factor) == [some |-> TRUE, factor |-> factor]

\* the first call: random_walk(&ray, scene, &mut sampler, 0, maxdepth)
WalkStart(sampler_of_pixel, maxdepth) ==
    [maxdepth |-> maxdepth, depth |-> 0, frames |-> <<>>,
     sampler |-> sampler_of_pixel, queries |-> 0, draws |-> 0,
     hit |-> None, value |-> AsF32(0), pc |-> "call"]

\* the walk goes on until it is past maxdepth
beyond_maxdepth(depth, maxdepth) == depth > maxdepth

\* if depth == maxdepth
at_maxdepth(depth, maxdepth) == depth = maxdepth

\* return from the call: the value handed to the caller
returning(self, value) == [self EXCEPT !.value = value, !.pc = "return"]

\* one call of random_walk, up to its return or its recursive call
random_walk(self, hit, checks) ==
    With([self EXCEPT !.queries = @ + 1, !.hit = hit], LAMBDA queried :
        IF ~hit.some THEN returning(queried, AsF32(0))
        ELSE IF at_maxdepth(self.depth, self.maxdepth)
        THEN returning(queried, hit.le)
        ELSE With(next_2d(self.sampler, checks), LAMBDA drawn_2d :
            IF drawn_2d.panic THEN [queried EXCEPT !.pc = "abort"]
            ELSE With([queried EXCEPT !.sampler = drawn_2d.sampler,
                                      !.draws = @ + 1],
                      LAMBDA sampled :
                IF ~hit.eval.some THEN returning(sampled, hit.le)
                ELSE [sampled EXCEPT
                         !.frames = Append(@, [le |-> hit.le,
                                               factor |-> hit.eval.factor]),
                         !.depth = @ + 1,
                         !.pc = "call"])))

\* le + fcos * random_walk(..) * sample_dist.pdfw.recip()
random_walk_return(self) ==
    With(self.frames[Len(self.frames)], LAMBDA frame :
        [self EXCEPT !.frames = SubSeq(@, 1, Len(@) - 1),
                     !.depth = @ - 1,
                     !.value = F32Add(frame.le, F32Mul(frame.factor, self.value))])

\* the hits of the scenes walked
WalkHits ==
    { Hit(le, eval) : le \in { AsF32(0), AsF32(1) },
                      eval \in { None, SomeFactor(AsF32(2)) } }

\* random_walk is called, by the integrator or by itself
WalkCall ==
    /\ walk.pc = "call"
    /\ \E hit \in WalkHits \cup { None } :
          walk' = random_walk(walk, hit, overflow_checks)
    /\ UNCHANGED besideWalk

\* a recursive call has returned to its caller
WalkReturn ==
    /\ walk.pc = "return"
    /\ walk.frames # <<>>
    /\ walk' = random_walk_return(walk)
    /\ UNCHANGED besideWalk

----------------------------------------------------------------------------
(* Scenes *)

\* the boxes a primitive may have
BoxSet ==
    { AABB(<<0, 0, 0>>, <<2, 2, 2>>),
      AABB(<<1, 0, 0>>, <<5, 2, 2>>),
      AABB(<<4, 0, 0>>, <<8, 8, 8>>),
      AABB(<<0, 4, 0>>, <<2, 8, 2>>),
      AABB(<<0, 0, 4>>, <<2, 2, 10>>) }

NoRay == [origin |-> <<0, 0, 0>>, direction |-> <<1, 1, 1>>]

\* the state before BVH::build is called on one of the scenes
BVHInit(scenes) ==
    /\ pc = "new"
    /\ panic = "none"
    /\ \E sc \in scenes :
          /\ n_primitives = sc.n
          /\ prim_bbox = sc.bbox
    /\ nodes = <<>>
    /\ primitive_indices = <<>>
    /\ stack_nodes = <<>>
    /\ ray = NoRay
    /\ isect_t = [p \in 0..(n_primitives - 1) |-> NoHit]
    /\ current_t = 0
    /\ primitive_id = 0
    /\ bvh_result = None
    /\ linear_result = None

\* no BVH
BVHIdle == BVHInit({[n |-> 0, bbox |-> <<>>]})

\* no permutation asked for
PermIdle ==
    /\ perm_total = 1
    /\ perm_seed = ToU32(0)
    /\ perm_ids = <<>>
    /\ perm_panic = FALSE

\* a sampler nobody calls
SamplerIdle ==
    /\ sampler = StratifiedPathSampler(ZeroExtend(ToU32(0)), 1, 1, FALSE)
    /\ sampler_panic = FALSE
    /\ returned = <<>>
    /\ pixel = [x |-> 0, y |-> 0]
    /\ cells = <<>>
    /\ drawn = <<>>

\* a fresh buffer of the size sz
AccumInit(sz) ==
    /\ size = sz
    /\ buffer = AccumlationBufferNew(sz)
    /\ added = [p \in (0..(sz.width - 1)) \X (0..(sz.height - 1)) |-> <<>>]

\* a buffer nobody adds to
AccumIdle == AccumInit([width |-> 1, height |-> 1])

\* an image of the size sz split into tiles of x_size by y_size pixels, no
\* tile rendered yet
TileInit(sz, radius, x_size, y_size) ==
    /\ filter_radius = radius
    /\ tiles = split(Tile(0, 0, sz.width, sz.height), x_size, y_size)
    /\ current = 0
    /\ tile_buffer = AccumlationTileBufferNew(Tile(0, 0, 1, 1), None, 1, 1)
    /\ samples = <<>>
    /\ merges = <<>>
    /\ tile_panic = FALSE

\* no path is walked
WalkIdle ==
    walk = [WalkStart(StratifiedPathSampler(ZeroExtend(ToU32(0)), 1, 1, FALSE), 0)
            EXCEPT !.pc = "return"]

\* an integrator is called
IntegInit(kind, spp, resolution, sampler_created) ==
    /\ integrator = IntegratorStart(kind, spp, resolution, sampler_created)
    /\ sample_calls = <<>>

\* no integrator runs
IntegIdle ==
    /\ integrator = [IntegratorStart("direct_lgt", 0, [width |-> 1, height |-> 1],
                        StratifiedPathSampler(ZeroExtend(ToU32(0)), 1, 1, FALSE))
                     EXCEPT !.pc = "done"]
    /\ sample_calls = <<>>

\* the parser before its first directive
ParseInit ==
    /\ parse_state = ParseStateNew
    /\ scene_desc = SceneDescriptionDefault
    /\ parse_result = "parsing"
    /\ n_directives = 0
    /\ saved = <<>>
    /\ balanced = <<>>

\* nothing is parsed
ParseIdle ==
    /\ parse_state = ParseStateNew
    /\ scene_desc = SceneDescriptionDefault
    /\ parse_result = "ok"
    /\ n_directives = 0
    /\ saved = <<>>
    /\ balanced = <<>>

\* no tile is split or iterated
IterInit(tile) ==
    /\ split_call = None
    /\ tile_iter = into_iter(tile)
    /\ yielded = <<>>

IterIdle == IterInit(Tile(0, 0, 1, 1))

\* the identity and nothing computed from it
TransformIdle ==
    /\ xf_a = Transformation(identity, identity)
    /\ xf_b = Transformation(identity, identity)
    /\ xf_product = [count |-> 0]
    /\ bbox_out = None
    /\ look_out = None

\* a Geometry nobody adds to
GeometryIdle ==
    /\ geometry = GeometryNew
    /\ geom_pc = "idle"
    /\ geom_ray = NoRay
    /\ interaction = None

\* no tile is rendered
TileIdle == TileInit([width |-> 1, height |-> 1], None, 1, 1)

InitScene(scenes) ==
    /\ BVHInit(scenes)
    /\ overflow_checks = FALSE
    /\ PermIdle
    /\ SamplerIdle
    /\ AccumIdle
    /\ TileIdle
    /\ GeometryIdle
    /\ TransformIdle
    /\ IterIdle
    /\ ParseIdle
    /\ IntegIdle
    /\ WalkIdle

\* every assignment of boxes of BoxSet to 0 .. maxN primitives
Scenes(maxN) ==
    UNION { { [n |-> n, bbox |-> f] : f \in [0..(n - 1) -> BoxSet] } : n \in 0..maxN }

InitBuild == InitScene(Scenes(MaxPrims))

NextBuild == Build \/ BuildStep

\* BVH::build on every scene of up to MaxPrims primitives
SpecBuild == InitBuild /\ [][NextBuild]_vars

\* build is one call: its loop goes on until it returns
InitBuildFair == InitScene(Scenes(MaxPrims - 1))

SpecBuildFair == InitBuildFair /\ [][NextBuild]_vars /\ WF_vars(NextBuild)

InitBVH == InitScene(Scenes(MaxIsectPrims))

NextBVH == Build \/ BuildStep \/ Intersect \/ IntersectStep \/ LinearIntersect

\* BVH::build, then BVH::intersect and the linear search on one ray
SpecBVH == InitBVH /\ [][NextBVH]_vars

\* a degenerate scene: primitive 0 spans [0, 1] on x and primitive j > 0 spans
\* [-j, 0], so every midpoint split sends one primitive left and the rest right
ChainBox(j) ==
    IF j = 0 THEN AABB(<<0, 0, 0>>, <<1, 0, 0>>)
    ELSE AABB(<<0 - j, 0, 0>>, <<0, 0, 0>>)

ChainScenes ==
    { [n |-> n, bbox |-> [p \in 0..(n - 1) |-> ChainBox(p)]] : n \in DeepMin..DeepMax }

InitDeep == InitScene(ChainScenes)

\* BVH::build on the degenerate scenes of DeepMin .. DeepMax primitives
SpecDeep == InitDeep /\ [][NextBuild]_vars

\* seeds: small ones, the seed of permutation_test, one with bits above
\* bit 27, and the largest two
PermSeeds ==
    { ToU32(0), ToU32(1), ToU32(255552), U32(\h1000, 0),
      U32(\hFFFF, \hFFFE), U32(\hFFFF, \hFFFF) }

InitPerm ==
    /\ BVHIdle
    /\ overflow_checks \in BOOLEAN
    /\ perm_total \in 1..MaxPermN
    /\ perm_seed \in PermSeeds
    /\ perm_ids = <<>>
    /\ perm_panic = FALSE
    /\ SamplerIdle
    /\ AccumIdle
    /\ TileIdle
    /\ GeometryIdle
    /\ TransformIdle
    /\ IterIdle
    /\ ParseIdle
    /\ IntegIdle
    /\ WalkIdle

NextPerm == PermutationElement

SpecPerm == InitPerm /\ [][NextPerm]_vars

\* the seed of the sampler and the pixel sampled
SamplerCases ==
    { [seed |-> ZeroExtend(ToU32(14918)), x |-> 4, y |-> 15],
      [seed |-> U64(U32(\h07FF, \hFE00), U32(0, 7)), x |-> 0, y |-> 0] }

InitSampler ==
    /\ BVHIdle
    /\ PermIdle
    /\ overflow_checks \in BOOLEAN
    /\ \E c \in SamplerCases, xs, ys \in 1..MaxStrata, jitter \in BOOLEAN :
          /\ sampler = StratifiedPathSampler(c.seed, xs, ys, jitter)
          /\ pixel = [x |-> c.x, y |-> c.y]
    /\ sampler_panic = FALSE
    /\ returned = <<>>
    /\ cells = <<>>
    /\ drawn = <<>>
    /\ AccumIdle
    /\ TileIdle
    /\ GeometryIdle
    /\ TransformIdle
    /\ IterIdle
    /\ ParseIdle
    /\ IntegIdle
    /\ WalkIdle

\* the samples of one pixel, one call of sample_pixel each
NextStrata == SamplePixel

SpecStrata == InitSampler /\ [][NextStrata]_vars

\* the first samples of one pixel, with further draws for each
NextSampler ==
    \/ Len(cells) < MaxSamples /\ SamplePixel
    \/ Next1D
    \/ Next2D

SpecSampler == InitSampler /\ [][NextSampler]_vars

\* the images
ImageSizes ==
    { [width |-> 1, height |-> 1], [width |-> 2, height |-> 1],
      [width |-> 1, height |-> 2] }

InitAccum ==
    /\ BVHIdle
    /\ overflow_checks = FALSE
    /\ PermIdle
    /\ SamplerIdle
    /\ \E sz \in ImageSizes : AccumInit(sz)
    /\ TileIdle
    /\ GeometryIdle
    /\ TransformIdle
    /\ IterIdle
    /\ ParseIdle
    /\ IntegIdle
    /\ WalkIdle

NextAccum == Add

SpecAccum == InitAccum /\ [][NextAccum]_vars

\* the images rendered by tiles
TileImageSizes == { [width |-> 3, height |-> 1], [width |-> 2, height |-> 2] }

\* the filter radii: no filter, and 1/4, 1/2 and 5/4 of a pixel
FilterRadii == { None, SomeRadius(1), SomeRadius(2), SomeRadius(5) }

InitTile ==
    /\ BVHIdle
    /\ overflow_checks = FALSE
    /\ PermIdle
    /\ SamplerIdle
    /\ \E sz \in TileImageSizes, radius \in FilterRadii,
          x_size \in 1..MaxTileSize, y_size \in 1..MaxTileSize :
          /\ AccumInit(sz)
          /\ TileInit(sz, radius, x_size, y_size)
    /\ GeometryIdle
    /\ TransformIdle
    /\ IterIdle
    /\ ParseIdle
    /\ IntegIdle
    /\ WalkIdle

NextTile == NewTileBuffer \/ TileAdd \/ MergeTile

SpecTile == InitTile /\ [][NextTile]_vars

InitGeometry ==
    /\ BVHIdle
    /\ overflow_checks = FALSE
    /\ PermIdle
    /\ SamplerIdle
    /\ AccumIdle
    /\ TileIdle
    /\ geometry = GeometryNew
    /\ geom_pc = "adding"
    /\ geom_ray = NoRay
    /\ interaction = None
    /\ TransformIdle
    /\ IterIdle
    /\ ParseIdle
    /\ IntegIdle
    /\ WalkIdle

NextGeometry ==
    AddSphere \/ AddMesh \/ PrepareForRendering \/ GeometryIntersect

SpecGeometry == InitGeometry /\ [][NextGeometry]_vars

InitTransform ==
    /\ BVHIdle
    /\ overflow_checks = FALSE
    /\ PermIdle
    /\ SamplerIdle
    /\ AccumIdle
    /\ TileIdle
    /\ GeometryIdle
    /\ TransformIdle
    /\ IterIdle
    /\ ParseIdle
    /\ IntegIdle
    /\ WalkIdle

NextTransform ==
    TransformationNew \/ Inverse \/ Multiply \/ TransformBox \/ LookAt

SpecTransform == InitTransform /\ [][NextTransform]_vars

InitIter ==
    /\ BVHIdle
    /\ overflow_checks = FALSE
    /\ PermIdle
    /\ SamplerIdle
    /\ AccumIdle
    /\ TileIdle
    /\ GeometryIdle
    /\ TransformIdle
    /\ \E tile \in IterTiles : IterInit(tile)
    /\ ParseIdle
    /\ IntegIdle
    /\ WalkIdle

NextIter == TileSplit \/ TileIntoIter \/ TileIteratorNext

SpecIter == InitIter /\ [][NextIter]_vars

InitParse ==
    /\ BVHIdle
    /\ overflow_checks = FALSE
    /\ PermIdle
    /\ SamplerIdle
    /\ AccumIdle
    /\ TileIdle
    /\ GeometryIdle
    /\ TransformIdle
    /\ IterIdle
    /\ ParseInit
    /\ IntegIdle
    /\ WalkIdle

NextParse ==
    \/ AttributeBegin \/ AttributeEnd \/ Material \/ AreaLightSource
    \/ Translate \/ IdentityDirective \/ Shape \/ UnsupportedDirective
    \/ EndOfInput

SpecParse == InitParse /\ [][NextParse]_vars

\* the seeds of the samplers the integrators run with
IntegratorSeeds ==
    { ZeroExtend(ToU32(14918)), U64(U32(\h07FF, \hFE00), U32(0, 7)) }

InitInteg ==
    /\ BVHIdle
    /\ overflow_checks \in BOOLEAN
    /\ PermIdle
    /\ SamplerIdle
    /\ AccumIdle
    /\ TileIdle
    /\ GeometryIdle
    /\ TransformIdle
    /\ IterIdle
    /\ ParseIdle
    /\ \E kind \in Integrators, spp \in 0..MaxSpp,
          width, height \in 1..MaxResolution,
          seed \in IntegratorSeeds, jitter \in BOOLEAN :
          IntegInit(kind, spp, [width |-> width, height |-> height],
                    StratifiedPathSampler(seed, 2, 2, jitter))
    /\ WalkIdle

NextInteg ==
    \/ IntegratorIteration \/ IntegratorPixel \/ IntegratorIterationEnd
    \/ IntegratorFinish

SpecInteg == InitInteg /\ [][NextInteg]_vars

\* the path of the first sample of pixel (0, 0)
InitWalk ==
    /\ BVHIdle
    /\ overflow_checks \in BOOLEAN
    /\ PermIdle
    /\ SamplerIdle
    /\ AccumIdle
    /\ TileIdle
    /\ GeometryIdle
    /\ TransformIdle
    /\ IterIdle
    /\ ParseIdle
    /\ IntegIdle
    /\ \E seed \in IntegratorSeeds, jitter \in BOOLEAN, maxdepth \in 0..MaxDepth :
          \E r \in { sample_pixel(StratifiedPathSampler(seed, 2, 2, jitter),
                                  0, 0, 0, FALSE) } :
             walk = WalkStart(r.sampler, maxdepth)

NextWalk == WalkCall \/ WalkReturn

\* a call of random_walk runs on until it returns
SpecWalk == InitWalk /\ [][NextWalk]_vars /\ WF_vars(NextWalk)

----------------------------------------------------------------------------
(* Properties of the BVH *)

\* the number of primitives below node k: its own when it is a leaf, else its
\* children's (0 for a node whose children are not stored after it)
RECURSIVE Span(_)
Span(k) ==
    LET node == At(nodes, k)
    IN  IF node.num_prims > 0 THEN node.num_prims
        ELSE IF node.left_node > k /\ node.left_node + 1 < Len(nodes)
             THEN Span(node.left_node) + Span(node.left_node + 1)
             ELSE 0

\* C1: on every built BVH and every ray, BVH::intersect returns what the linear
\* search over the primitives whose box the ray meets returns: none when that
\* finds none, else the same distance t and the same primitive id.
BVHEqualsLinearSearch ==
    pc = "compared" => bvh_result = linear_result

\* C2: over N >= 1 primitives the node array never holds more than 2N - 1
\* nodes, during the build and after it.
NodeCountBound ==
    n_primitives >= 1 => Len(nodes) <= 2 * n_primitives - 1

\* C2 witness: a finished build that split twice
NodeCountWitness ==
    pc = "built" /\ n_primitives >= 4 /\ Len(nodes) >= 5

\* C3: after the build every leaf holds at most two primitives.
LeavesHoldAtMostTwo ==
    pc = "built" => \A k \in 1..Len(nodes) : nodes[k].num_prims <= 2

\* C3 witness: a finished build over four or more primitives of one and the
\* same box (identical centroids) with a leaf of two
LeavesWitness ==
    /\ pc = "built"
    /\ n_primitives >= 4
    /\ \A p \in DOMAIN prim_bbox : prim_bbox[p] = prim_bbox[0]
    /\ \E k \in 1..Len(nodes) : nodes[k].num_prims = 2

\* C4: after the build every node with num_prims = 0 has its children at
\* left_node and left_node + 1, inside the array and after the parent; the left
\* child's slice starts where the parent's did, the right child's where the
\* left one's ends, and no primitive of the slice is lost (the root spans N).
ChildrenContiguous ==
    (pc = "built" /\ n_primitives >= 1) =>
        /\ \A k \in 0..(Len(nodes) - 1) :
              LET node == At(nodes, k)
              IN  node.num_prims = 0 =>
                    /\ node.left_node > k
                    /\ node.left_node + 1 < Len(nodes)
                    /\ At(nodes, node.left_node).first_prim = node.first_prim
                    /\ At(nodes, node.left_node + 1).first_prim
                         = node.first_prim + Span(node.left_node)
        /\ Span(0) = n_primitives
        /\ At(nodes, 0).first_prim = 0

\* C4 witness: a finished build with an interior node below the root
ChildrenWitness ==
    /\ pc = "built"
    /\ \E k \in 1..(Len(nodes) - 1) : At(nodes, k).num_prims = 0

\* C5: BVH::intersect never aborts on a built BVH, and on the BVH of an empty
\* primitive table it returns None.
IntersectIsTotal ==
    /\ pc = "isect" => panic = "none"
    /\ (pc = "returned" /\ n_primitives = 0) => bvh_result = None

\* C6: the node stack never needs more than its STACK_SIZE entries.
StackNeverOverflows ==
    /\ panic # "stack_overflow"
    /\ Len(stack_nodes) <= STACK_SIZE

\* C7: for every n >= 1 and every seed, permutation_element returns normally
\* for every i in [0, n), and the values it returns for i = 0 .. n-1 are
\* values of [0, n) that are pairwise different (so each is produced once)
PermutationIsBijection ==
    /\ ~perm_panic
    /\ \A a \in 1..Len(perm_ids) : perm_ids[a] \in 0..(perm_total - 1)
    /\ \A a, b \in 1..Len(perm_ids) : a # b => perm_ids[a] # perm_ids[b]

\* C8: for a fixed pixel, every call sample_pixel(x, y, i), i = 0 .. xs*ys-1,
\* returns, and the stratum cells of the offsets returned are cells of the
\* xs by ys grid and pairwise different (so that the xs*ys calls visit every
\* stratum exactly once)
StrataVisitedOnce ==
    /\ ~sampler_panic
    /\ \A a \in 1..Len(cells) :
          /\ cells[a][1] \in 0..(sampler.xsamples - 1)
          /\ cells[a][2] \in 0..(sampler.ysamples - 1)
    /\ \A a, b \in 1..Len(cells) : a # b => cells[a] # cells[b]

\* the number of draws of a kind among the draws after sample_pixel's own
DrawsOfKind(kind) ==
    Cardinality({k \in 2..Len(drawn) : drawn[k].kind = kind})

\* C9: sample_pixel hashes its own 2D draw with dimension 0; each next_1d
\* moves the counter on by 1 and each next_2d by 2, so that after
\* sample_pixel, a calls of next_1d and b calls of next_2d the counter is
\* 2 + a + 2b; and no two draws of the sample hash the same dimension
DimensionCounter ==
    drawn # <<>> =>
        /\ drawn[1] = [kind |-> "2d", dimension |-> 0]
        /\ \A k \in 1..(Len(drawn) - 1) :
              drawn[k + 1].dimension
                  = drawn[k].dimension + (IF drawn[k].kind = "1d" THEN 1 ELSE 2)
        /\ sampler.dimension = 2 + DrawsOfKind("1d") + 2 * DrawsOfKind("2d")
        /\ \A j, k \in 1..Len(drawn) :
              j # k => drawn[j].dimension # drawn[k].dimension

\* a second sample of the pixel, followed by a next_1d and a next_2d
DimensionWitness ==
    /\ Len(cells) = 2
    /\ DrawsOfKind("1d") >= 1
    /\ DrawsOfKind("2d") >= 1
    /\ ~sampler_panic

\* the f32 sum of the first k colours, added in their order
RECURSIVE SumOf(_, _)
SumOf(colours, k) ==
    IF k = 0 THEN AsF32(0) ELSE F32Add(SumOf(colours, k - 1), colours[k])

\* C10: after any adds on a fresh buffer, every pixel holds as spectrum the
\* sum of the colours added at it and as weight the number of those adds,
\* and a pixel that k >= 1 times got the same colour c resolves to c
AccumulationResolves ==
    \A p \in DOMAIN added :
        LET sample == get(p[1], p[2])
            colours == added[p]
        IN  /\ F32Eq(sample.spectrum, SumOf(colours, Len(colours)))
            /\ F32Eq(sample.weight, AsF32(Len(colours)))
            /\ \A c \in {colours[k] : k \in 1..Len(colours)} :
                  (\A k \in 1..Len(colours) : colours[k] = c)
                      => F32Eq(resolve(sample), c)

----------------------------------------------------------------------------
(* Properties of the tile buffer *)

\* the tile the i-th sample was added to has been merged
Merged(i) == \E j \in 1..Len(merges) : merges[j].tile = samples[i].tile

\* what the sample s owes to the pixel (x, y) of the image: colour * w and w,
\* w the filter at the offset from the pixel's centre, when the pixel is in
\* the extent of the filter around s, in the padded tile, and w > 0
Contribution(s, x, y) ==
    LET radius == filter_radius.radius
        rect == padded_rect(tiles[s.tile], padding_of(radius),
                            size.width, size.height)
        w == calc_weight(filter_radius,
                         s.x - (Pixels(x) + (Pixels(1) \div 2)),
                         s.y - (Pixels(y) + (Pixels(1) \div 2)))
    IN  IF /\ Floor(s.x - radius) <= x /\ x < Ceil(s.x + radius)
           /\ Floor(s.y - radius) <= y /\ y < Ceil(s.y + radius)
           /\ rect.left <= x /\ x < rect.right
           /\ rect.top <= y /\ y < rect.bottom
           /\ ~F32Eq(w, AsF32(0))
        THEN PixelSample(F32Mul(s.value, w), w)
        ELSE PixelSampleDefault

\* two samples hold the same floats
SameSample(a, b) == F32Eq(a.spectrum, b.spectrum) /\ F32Eq(a.weight, b.weight)

\* C11: with a filter, once the tile of the one sample added has been merged,
\* every pixel of the image holds what the sample owes it: colour * w and w on
\* the pixels of the filter's extent that lie in the padded tile and have
\* w > 0, nothing elsewhere.
FilteredSampleReachesItsPixels ==
    (filter_radius.some /\ Len(samples) = 1 /\ ~tile_panic /\ Merged(1)) =>
        \A x \in 0..(size.width - 1), y \in 0..(size.height - 1) :
            SameSample(get(x, y), Contribution(samples[1], x, y))

\* the rectangle of the tile grown by padding on every side and cut to the
\* image
PaddedTileInImage(tile, padding) ==
    [left |-> Max2(tile.x1 - padding, 0),
     right |-> Min2(tile.x2 + padding, size.width),
     top |-> Max2(tile.y1 - padding, 0),
     bottom |-> Min2(tile.y2 + padding, size.height)]

\* what a merge of the tile buffer tb does to the pixels of the image
MergeEffect(tb) ==
    LET rect == PaddedTileInImage(tb.tile, tb.padding)
    IN  /\ ~tile_panic'
        /\ \A x \in 0..(size.width - 1), y \in 0..(size.height - 1) :
              LET after == buffer'[y * size.width + x + 1]
                  before == buffer[y * size.width + x + 1]
              IN  IF /\ rect.left <= x /\ x < rect.right
                     /\ rect.top <= y /\ y < rect.bottom
                  THEN after = add_assign(before,
                                   tb.buffer[(y - rect.top) * tb.width
                                             + (x - rect.left) + 1])
                  ELSE after = before

\* C12: a merge adds, for every pixel (x, y) of the padded tile cut to the
\* image, the entry (x - left, y - top) of the tile buffer to the pixel
\* (x, y) of the image, reads and writes inside both buffers only, and leaves
\* every other pixel as it was.
MergeAddsThePaddedTile ==
    [][(current # 0 /\ current' = 0) => MergeEffect(tile_buffer)]_vars

\* C12: all tiles are merged, the sample was added to a padded tile that is
\* not the first one, and it shows in the image
MergeWitness ==
    /\ ~tile_panic
    /\ Len(tiles) > 1 /\ Len(merges) = Len(tiles)
    /\ Len(samples) = 1 /\ samples[1].tile > 1
    /\ filter_radius = SomeRadius(5)
    /\ \E k \in 1..Len(buffer) : ~F32Eq(buffer[k].weight, AsF32(0))

\* the merges of two different tiles wrote no pixel in common
DisjointWrites ==
    \A i, j \in 1..Len(merges) :
        i # j => merges[i].written \cap merges[j].written = {}

\* C13 as stated: the merges of two different tiles write disjoint sets of
\* pixels of the image.
MergesWriteDisjointPixels == ~tile_panic => DisjointWrites

\* C13: without a filter, or with a filter radius below half a pixel, the
\* merges of two different tiles write disjoint sets of pixels of the image.
UnpaddedMergesWriteDisjointPixels ==
    (~tile_panic /\ (~filter_radius.some \/ filter_radius.radius < 2)) =>
        DisjointWrites

\* C13: two tiles were merged with a filter of a quarter of a pixel, and each
\* merge wrote pixels
DisjointWitness ==
    /\ ~tile_panic
    /\ filter_radius = SomeRadius(1)
    /\ Len(merges) >= 2
    /\ \A i \in 1..Len(merges) : merges[i].written # {}

\* the sum of the weights of the entries k.. of a buffer
RECURSIVE WeightSum(_, _)
WeightSum(entries, k) ==
    IF k > Len(entries) THEN AsF32(0)
    ELSE F32Add(entries[k].weight, WeightSum(entries, k + 1))

\* the tile buffer holds the one sample added, with a box filter of radius
\* 1/2
OneBoxSample ==
    /\ filter_radius = SomeRadius(2)
    /\ Len(samples) = 1
    /\ current = samples[1].tile
    /\ ~tile_panic

\* C14 as stated: with a box filter of radius 1/2, the weights one add
\* deposits sum to 1 wherever the sample lies in the image.
BoxWeightsSumToOne ==
    OneBoxSample => F32Eq(WeightSum(tile_buffer.buffer, 1), AsF32(1))

\* C14: with a box filter of radius 1/2, the weights one add deposits sum to
\* 1 for a sample that lies on no boundary between two pixels.
BoxWeightsSumToOneInsidePixel ==
    (OneBoxSample /\ samples[1].x % 4 # 0 /\ samples[1].y % 4 # 0) =>
        F32Eq(WeightSum(tile_buffer.buffer, 1), AsF32(1))

\* C14: a sample at a quarter of a pixel from the corner of the second tile
\* has been added
BoxWeightsWitness ==
    /\ OneBoxSample
    /\ current > 1
    /\ samples[1].x % 4 = 1 /\ samples[1].y % 4 = 1
    /\ F32Eq(WeightSum(tile_buffer.buffer, 1), AsF32(1))

\* C15 as stated: the padding of a tile buffer is the filter radius rounded
\* up, and 0 without a filter.
PaddingIsCeilOfRadius ==
    current # 0 =>
        tile_buffer.padding =
            IF filter_radius.some THEN 0 - ((0 - filter_radius.radius) \div 4)
            ELSE 0

\* C15: the padding of a tile buffer is the integer part of the filter
\* radius plus 1/2, and 0 without a filter.
PaddingIsRadiusPlusHalfTruncated ==
    current # 0 =>
        tile_buffer.padding =
            IF filter_radius.some THEN (filter_radius.radius + 2) \div 4
            ELSE 0

\* C15: a tile buffer was made for a filter of radius 5/4, with padding 1
PaddingWitness ==
    /\ current # 0
    /\ filter_radius = SomeRadius(5)
    /\ tile_buffer.padding = 1

----------------------------------------------------------------------------
(* Properties of the Geometry *)

\* the distances t > 0 at which the ray r hits a sphere or a triangle of g
PositiveHits(g, r) ==
    { t \in { sphere_intersect(g.spheres[i], r, 0) : i \in 1..Len(g.spheres) }
            \cup
            { mesh_intersect(At(g.meshes, g.triangles[i].mesh_id),
                             g.triangles[i].triangle_id, r, 0) :
                  i \in 1..Len(g.triangles) } :
        t # NoHit /\ t > 0 }

\* C16: Geometry::intersect returns an interaction at the smallest distance
\* t > 0 at which the ray hits a sphere or a triangle, and returns none only
\* when the ray hits nothing at a distance t > 0.
GeometryReturnsNearestHit ==
    geom_pc = "intersected" =>
        LET hits == PositiveHits(geometry, geom_ray)
        IN  IF hits = {} THEN ~interaction.some
            ELSE /\ interaction.some
                 /\ interaction.t \in hits
                 /\ \A t \in hits : interaction.t <= t

\* the geometric normals of the spheres and triangles of g that the ray r hits
\* at the distance t
GeometricNormals(g, r, t) ==
    { sphere_normal(g.spheres[i], point_at(r, t)) :
        i \in { k \in 1..Len(g.spheres) :
                  sphere_intersect(g.spheres[k], r, 0) = t } }
    \cup
    { mesh_normal(At(g.meshes, g.triangles[i].mesh_id),
                  g.triangles[i].triangle_id) :
        i \in { k \in 1..Len(g.triangles) :
                  mesh_intersect(At(g.meshes, g.triangles[k].mesh_id),
                                 g.triangles[k].triangle_id, r, 0) = t } }

\* C17: the normal of a returned interaction has (-ray.direction) . normal
\* >= 0; back_face is true exactly when the geometric normal n of the
\* primitive had (-ray.direction) . n < 0, and then the normal is -n;
\* otherwise the normal is n and back_face is false.
NormalFacesTheRay ==
    (geom_pc = "intersected" /\ interaction.some) =>
        /\ ~IsNaN(interaction.normal)
        /\ Dot(VNeg(geom_ray.direction), interaction.normal.num) >= 0
        /\ \E n \in GeometricNormals(geometry, geom_ray, interaction.t) :
              IF Dot(VNeg(geom_ray.direction), n.num) < 0
              THEN /\ interaction.back_face
                   /\ interaction.normal = [num |-> VNeg(n.num), den |-> n.den]
              ELSE /\ ~interaction.back_face
                   /\ interaction.normal = n

----------------------------------------------------------------------------
(* Properties of the Transformation *)

\* the eight corners of a box
Corners(b) ==
    { <<x, y, z>> : x \in {b.min[1], b.max[1]}, y \in {b.min[2], b.max[2]},
                    z \in {b.min[3], b.max[3]} }

\* the least and the greatest member of a set of numbers
Least(S) == CHOOSE x \in S : \A y \in S : x <= y

Greatest(S) == CHOOSE x \in S : \A y \in S : y <= x

\* the axis-aligned bounding box of a set of points
BoxOf(points) ==
    AABB(<<Least({ p[1] : p \in points }), Least({ p[2] : p \in points }),
           Least({ p[3] : p \in points })>>,
         <<Greatest({ p[1] : p \in points }), Greatest({ p[2] : p \in points }),
           Greatest({ p[3] : p \in points })>>)

\* C18: the box b * T is the axis-aligned bounding box of the images under T
\* of the eight corners of b
TransformedBoxIsBoxOfCorners ==
    bbox_out.some =>
        bbox_out.value =
            BoxOf({ transform_point(bbox_out.by, c) : c \in Corners(bbox_out.bbox) })

\* the product of two matrices, entry by entry
MatrixProduct(a, b) ==
    [i \in 1..4 |->
        [j \in 1..4 |->
            a[i][1] * b[1][j] + a[i][2] * b[2][j] + a[i][3] * b[3][j]
                + a[i][4] * b[4][j]]]

\* C19: A * B holds A.mat . B.mat with B.inv_mat . A.inv_mat, which is its
\* inverse; (A * B).inverse() is B.inverse() * A.inverse(), and
\* T.inverse().inverse() is T
CompositionKeepsInverseInLockstep ==
    xf_product.count > 0 =>
        LET A == xf_product.a
            B == xf_product.b
            P == xf_product.value
        IN  /\ P.mat = MatrixProduct(A.mat, B.mat)
            /\ P.inv_mat = MatrixProduct(B.inv_mat, A.inv_mat)
            /\ MatrixProduct(P.mat, P.inv_mat) = identity
            /\ inverse(P) = transformation_mul(inverse(B), inverse(A))
            /\ inverse(inverse(P)) = P
            /\ inverse(inverse(xf_b)) = xf_b

\* a product of two transformations that do not commute, neither the
\* identity, was taken
CompositionWitness ==
    /\ xf_product.count > 0
    /\ xf_product.a.mat # identity
    /\ xf_product.b.mat # identity
    /\ MatrixProduct(xf_product.a.mat, xf_product.b.mat)
           # MatrixProduct(xf_product.b.mat, xf_product.a.mat)
    /\ MatrixProduct(xf_product.a.inv_mat, xf_product.b.inv_mat)
           # MatrixProduct(xf_product.b.inv_mat, xf_product.a.inv_mat)

\* up is parallel to the view direction, or look is pos
Degenerate(pos, look, up) ==
    \/ look = pos
    \/ LET d == VSub(look, pos)
       IN  /\ up[2] * d[3] = up[3] * d[2]
           /\ up[3] * d[1] = up[1] * d[3]
           /\ up[1] * d[2] = up[2] * d[1]

\* C20: look_at aborts for every degenerate input, and returns no
\* Transformation for one
LookAtAbortsOnDegenerateInput ==
    (look_out.some /\ Degenerate(look_out.pos, look_out.look, look_out.up))
        => look_out.outcome.panic

----------------------------------------------------------------------------
(* Properties of BVH::build *)

\* the node popped by the next iteration of the loop of build
Popped == At(nodes, stack_nodes[Len(stack_nodes)])

\* the places first_prim .. first_prim + num_prims - 1 of a node's slice
Slice(node) == node.first_prim .. (node.first_prim + node.num_prims - 1)

\* the primitive at place k lies below the split position of the box
BelowSplit(pi, bbox, k) ==
    LET axis == calculate_axis(bbox)
    IN  Centroid2(prim_bbox[At(pi, k)])[axis + 1] < split_pos2(bbox, axis)

\* the iteration splits the node it pops
Splits == pc = "build" /\ Len(nodes') = Len(nodes) + 2

\* the split of the popped node yields two non-empty children, both smaller
\* than it, at the partition's index, or at the middle of the slice when the
\* partition left every primitive on one side
SplitMakesProgress ==
    Splits =>
        LET node == Popped
            left == At(nodes', Len(nodes))
            right == At(nodes', Len(nodes) + 1)
            below == Cardinality({ k \in Slice(node) :
                                     BelowSplit(primitive_indices, node.bbox, k) })
        IN  /\ node.num_prims > 2
            /\ left.num_prims >= 1 /\ left.num_prims < node.num_prims
            /\ right.num_prims >= 1 /\ right.num_prims < node.num_prims
            /\ left.num_prims + right.num_prims = node.num_prims
            /\ left.num_prims =
                 IF below = 0 \/ below = node.num_prims
                 THEN node.num_prims \div 2 ELSE below

\* C25: build terminates for every number of primitives and every assignment
\* of boxes: each split yields two non-empty children smaller than the parent,
\* at the middle of the slice when the partition is one-sided, and the build
\* returns
BuildTerminates ==
    /\ [][SplitMakesProgress]_vars
    /\ <>(pc = "built")

\* the primitives of node k's slice all have one centroid on the split axis
OneSided(k) ==
    LET node == At(nodes, k)
        places == node.first_prim .. (node.first_prim + Span(k) - 1)
        below == { j \in places : BelowSplit(primitive_indices, node.bbox, j) }
    IN  below = {} \/ below = places

\* C25 witness: a finished build with an interior node of three or more
\* primitives, all on one side of its split position, split at the middle
BuildTerminatesWitness ==
    /\ pc = "built"
    /\ \E k \in 0..(Len(nodes) - 1) :
          /\ At(nodes, k).num_prims = 0
          /\ Span(k) >= 3
          /\ OneSided(k)
          /\ Span(At(nodes, k).left_node) = Span(k) \div 2

\* the values of the places lo .. hi of a vector, as a bag
RECURSIVE CountIn(_, _, _, _)
CountIn(pi, lo, hi, v) ==
    IF lo > hi THEN 0
    ELSE (IF At(pi, lo) = v THEN 1 ELSE 0) + CountIn(pi, lo + 1, hi, v)

\* what partition_primitives returns for the popped node
PartitionEffect ==
    Splits =>
        LET node == Popped
            first == node.first_prim
            last == node.first_prim + node.num_prims - 1
            part == partition_primitives(primitive_indices, prim_bbox, node.bbox,
                                         node.first_prim, node.num_prims)
        IN  /\ primitive_indices' = part.pi
            /\ part.i \in first..(last + 1)
            /\ part.j = part.i - 1
            /\ \A k \in first..(part.i - 1) :
                  BelowSplit(primitive_indices', node.bbox, k)
            /\ \A k \in part.i..last :
                  ~BelowSplit(primitive_indices', node.bbox, k)
            /\ \A v \in 0..(n_primitives - 1) :
                  CountIn(primitive_indices', first, last, v)
                      = CountIn(primitive_indices, first, last, v)
            /\ \A k \in 0..(n_primitives - 1) :
                  k \notin first..last =>
                      At(primitive_indices', k) = At(primitive_indices, k)

\* C26: partition_primitives on the slice [first, first + n) returns an index i
\* with the centroids of [first, i) below the split position and those of
\* [i, first + n) not below it; the slice holds the same indices as before and
\* the entries outside the slice are unchanged
PartitionSplitsTheSlice == [][PartitionEffect]_vars

\* C26 witness: the partition of the root's slice has exchanged entries, with
\* primitives on both sides of the split position, and a slice that does not
\* start at 0 was partitioned
PartitionWitness ==
    /\ pc = "built"
    /\ n_primitives >= 3
    /\ ~OneSided(0)
    /\ primitive_indices # [k \in 1..n_primitives |-> k - 1]
    /\ \E k \in 1..(Len(nodes) - 1) :
          /\ At(nodes, k).num_prims = 0
          /\ At(nodes, k).first_prim > 0

\* the least box around a set of boxes
UnionOf(boxes) ==
    AABB([k \in 1..3 |-> CHOOSE x \in { b.min[k] : b \in boxes } :
                            \A b \in boxes : x <= b.min[k]],
         [k \in 1..3 |-> CHOOSE x \in { b.max[k] : b \in boxes } :
                            \A b \in boxes : b.max[k] <= x])

\* the boxes of the primitives of node k's slice
BoxesBelow(k) ==
    { prim_bbox[At(primitive_indices, j)] :
        j \in At(nodes, k).first_prim .. (At(nodes, k).first_prim + Span(k) - 1) }

\* box a lies within box b
Within(a, b) ==
    \A k \in 1..3 : b.min[k] <= a.min[k] /\ a.max[k] <= b.max[k]

\* C27: after the build every node's bbox is the union of the boxes of the
\* primitives of its slice; the root's contains every primitive's box and a
\* child's lies within its parent's
NodeBoxIsUnionOfSlice ==
    pc = "built" =>
        /\ \A k \in 0..(Len(nodes) - 1) :
              /\ At(nodes, k).bbox = UnionOf(BoxesBelow(k))
              /\ At(nodes, k).num_prims = 0 =>
                    /\ Within(At(nodes, At(nodes, k).left_node).bbox,
                              At(nodes, k).bbox)
                    /\ Within(At(nodes, At(nodes, k).left_node + 1).bbox,
                              At(nodes, k).bbox)
        /\ \A p \in 0..(n_primitives - 1) :
              Within(prim_bbox[p], At(nodes, 0).bbox)

\* C27 witness: a finished build over primitives of different boxes whose
\* order the partitions changed, with a leaf of two
NodeBoxWitness ==
    /\ pc = "built"
    /\ Len(nodes) >= 5
    /\ primitive_indices # [k \in 1..n_primitives |-> k - 1]
    /\ \E k \in 1..(Len(nodes) - 1) :
          /\ At(nodes, k).num_prims = 2
          /\ Cardinality(BoxesBelow(k)) = 2

\* the leaves of the node array
Leaves == { k \in 0..(Len(nodes) - 1) : At(nodes, k).num_prims > 0 }

\* C28: during the build and after it primitive_indices is a permutation of
\* 0 .. N - 1; after it the slices of the leaves are pairwise disjoint and
\* cover [0, N)
LeavesPartitionThePrimitives ==
    /\ pc \in {"build", "built"} =>
          /\ Len(primitive_indices) = n_primitives
          /\ \A v \in 0..(n_primitives - 1) :
                \E k \in 0..(n_primitives - 1) : At(primitive_indices, k) = v
    /\ pc = "built" =>
          /\ \A a, b \in Leaves :
                a # b => Slice(At(nodes, a)) \cap Slice(At(nodes, b)) = {}
          /\ UNION { Slice(At(nodes, k)) : k \in Leaves }
                = 0..(n_primitives - 1)

\* C28 witness: a finished build of three leaves or more over reordered
\* primitives
LeavesPartitionWitness ==
    /\ pc = "built"
    /\ Cardinality(Leaves) >= 3
    /\ primitive_indices # [k \in 1..n_primitives |-> k - 1]

----------------------------------------------------------------------------
(* Properties of Tile::split and the TileIterator *)

\* the pixels of a tile
PixelsOf(tile) ==
    { <<x, y>> : x \in tile.x1..(tile.x2 - 1), y \in tile.y1..(tile.y2 - 1) }

\* the pixels yielded so far
YieldedPixels ==
    { <<yielded[k].x, yielded[k].y>> : k \in { j \in 1..Len(yielded) : yielded[j].some } }

\* C24: the iterator of a tile yields its pixels row by row, x fastest, from
\* (x1, y1), each once, width * height items in all, and None at every call
\* after them
TileIteratorIsRowMajor ==
    LET tile == tile_iter.tile
        width == tile.x2 - tile.x1
        height == tile.y2 - tile.y1
    IN  /\ \A k \in 1..Len(yielded) :
              IF k <= width * height
              THEN yielded[k] = SomePixel(tile.x1 + ((k - 1) % width),
                                          tile.y1 + ((k - 1) \div width))
              ELSE yielded[k] = None
        /\ \A k, l \in 1..Len(yielded) :
              (k # l /\ yielded[k].some) => yielded[k] # yielded[l]
        /\ Len(yielded) >= width * height => YieldedPixels = PixelsOf(tile)

\* C24 witness: a tile of two columns and two rows or more, away from the
\* origin, iterated to its end and MaxNones calls beyond
TileIteratorWitness ==
    /\ tile_iter.tile.x1 > 0
    /\ tile_iter.tile.y1 > 0
    /\ tile_iter.tile.x2 - tile_iter.tile.x1 >= 2
    /\ tile_iter.tile.y2 - tile_iter.tile.y1 >= 2
    /\ Len(yielded) = Cardinality(PixelsOf(tile_iter.tile)) + MaxNones

\* C30: the tiles of a split come row by row, each is non-empty, at most x_size
\* wide and y_size high, no two share a pixel, and together they are the tile
SplitTilesTheTile ==
    split_call.some =>
        LET parts == split_call.value
        IN  /\ \A k \in 1..Len(parts) :
                  /\ parts[k].x1 < parts[k].x2
                  /\ parts[k].y1 < parts[k].y2
                  /\ parts[k].x2 - parts[k].x1 <= split_call.x_size
                  /\ parts[k].y2 - parts[k].y1 <= split_call.y_size
            /\ \A k, l \in 1..Len(parts) :
                  k < l =>
                      /\ PixelsOf(parts[k]) \cap PixelsOf(parts[l]) = {}
                      /\ \/ parts[k].y1 < parts[l].y1
                         \/ parts[k].y1 = parts[l].y1 /\ parts[k].x1 < parts[l].x1
            /\ UNION { PixelsOf(parts[k]) : k \in 1..Len(parts) }
                  = PixelsOf(split_call.tile)

\* C30 witness: a split into two columns and two rows or more, the last column
\* and the last row cut at the tile's edge
SplitWitness ==
    /\ split_call.some
    /\ Len(split_call.value) >= 4
    /\ split_call.x_size >= 2
    /\ split_call.y_size >= 2
    /\ (split_call.tile.x2 - split_call.tile.x1) % split_call.x_size # 0
    /\ (split_call.tile.y2 - split_call.tile.y1) % split_call.y_size # 0
    /\ split_call.value[2].x1 > split_call.value[1].x1

----------------------------------------------------------------------------
(* Properties of the parser *)

\* C21: parsing returns Ok or Err to its caller and never aborts, whatever the
\* order and the nesting of the directives
ParsingNeverAborts == parse_result # "abort"

\* C29: after AttributeBegin ... AttributeEnd, nested or not, with
\* transformations, materials and area lights set in between, the current
\* transformation, the current material and the current area light, or its
\* absence, are what they were before the AttributeBegin
BalancedAttributesRestore ==
    \A k \in 1..Len(balanced) : balanced[k].after = balanced[k].before

\* C29 witness: a pair nested in another was closed, and a pair in which the
\* current values were changed
BalancedWitness ==
    /\ \E k \in 1..Len(balanced) :
          /\ balanced[k].depth >= 2
          /\ balanced[k].inside # balanced[k].before
    /\ \E k \in 1..Len(balanced) : balanced[k].depth = 1
    /\ saved = <<>>

----------------------------------------------------------------------------
(* Properties of the integrators *)

\* the k-th pair of an iteration-major, row-major walk over a tile at the
\* origin
VisitOf(tile, k) ==
    [x |-> (k - 1) % tile.x2,
     y |-> ((k - 1) \div tile.x2) % tile.y2,
     i |-> (k - 1) \div (tile.x2 * tile.y2)]

\* C22: the integrators call sample_pixel(x, y, i) once for each pixel and
\* iteration, iteration by iteration and row by row within one, and when an
\* integrator without a filter finishes every pixel of the accumulation
\* buffer has the weight spp
IntegratorIsIterationMajor ==
    LET tile == integrator.tile
        pixels == tile.x2 * tile.y2
    IN  /\ Len(sample_calls) <= integrator.spp * pixels
        /\ \A k \in 1..Len(sample_calls) : sample_calls[k] = VisitOf(tile, k)
        /\ integrator.pc = "done" =>
              /\ Len(sample_calls) = integrator.spp * pixels
              /\ \A k \in 1..pixels :
                    F32Eq(integrator.accum[k].weight, AsF32(integrator.spp))

\* C22 witness: an integrator has finished two iterations over an image of
\* two rows and two columns
IntegratorWitness ==
    /\ integrator.pc = "done"
    /\ integrator.spp >= 2
    /\ integrator.tile.x2 >= 2
    /\ integrator.tile.y2 >= 2
    /\ Len(sample_calls) >= 8

----------------------------------------------------------------------------
(* Properties of random_walk *)

\* the first call has returned, or the thread has panicked
WalkEnded ==
    \/ walk.pc = "return" /\ walk.frames = <<>>
    \/ walk.pc = "abort"

\* the depth, the intersection queries and the sampler draws of the path
WalkIsBounded ==
    /\ walk.depth <= walk.maxdepth
    /\ walk.depth = Len(walk.frames)
    /\ walk.queries <= walk.maxdepth + 1
    /\ walk.draws <= walk.maxdepth

\* a call at depth == maxdepth that hits returns the emission of its hit: it
\* draws nothing and calls nothing
HitAtMaxdepthReturnsEmission ==
    (walk.pc = "call" /\ walk.depth = walk.maxdepth /\ walk'.queries > walk.queries
        /\ walk'.hit.some)
    => /\ walk'.pc = "return"
       /\ walk'.value = walk'.hit.le
       /\ walk'.draws = walk.draws
       /\ walk'.depth = walk.depth
       /\ walk'.frames = walk.frames

\* C23: random_walk started at depth 0 ends; its depth stays within maxdepth,
\* its path makes at most maxdepth + 1 intersection queries and at most
\* maxdepth sampler draws, and a hit at depth == maxdepth returns the
\* emission of the hit without a draw or a recursive call
RandomWalkTerminates ==
    /\ []WalkIsBounded
    /\ [][HitAtMaxdepthReturnsEmission]_vars
    /\ <>WalkEnded

\* C23 witness: a path of maxdepth bounces hit a surface at depth == maxdepth
\* and every call has returned
RandomWalkWitness ==
    /\ walk.pc = "return"
    /\ walk.frames = <<>>
    /\ walk.maxdepth >= 2
    /\ walk.queries = walk.maxdepth + 1
    /\ walk.draws = walk.maxdepth
    /\ walk.hit.some

====
